---- MODULE Spec2Model ----
(***************************************************************************)
(* State-machine model of the USB HAL of device_google_gs201               *)
(* (usb/usb/Usb.cpp): the role-switch path (switchRole, switchMode,        *)
(* switchToDrp), the status aggregation (queryVersionHelper,               *)
(* getPortStatusHelper), the uevent dispatch thread (work, uevent_event,   *)
(* sighandler) and the callback life cycle (setCallback).                  *)
(*                                                                         *)
(* Threads are the binder caller threads and the incarnations of the       *)
(* dispatch thread created by pthread_create(&mPoll, ...).  Every blocking *)
(* point (mutex acquisition, condition wait, epoll_wait, pthread_join) and *)
(* every access to a sysfs node is a step of its own, so that the          *)
(* interleavings the three mutexes allow are the interleavings of the      *)
(* model.                                                                  *)
(***************************************************************************)
EXTENDS Integers, Sequences, FiniteSets, TLC

\* ------------------------------------------------------------------ bounds
MaxThreads  == 2     \* pthread_create calls that succeed (then EAGAIN)
MaxOps      == 2     \* binder calls issued in one behaviour
MaxEvents   == 2     \* kernel uevent messages emitted in one behaviour
MaxSpurious == 1     \* spurious wake-ups of pthread_cond_timedwait

\* ------------------------------------------------- threads, ports, values
NoThread == 0                       \* an unlocked mutex / no thread id
Callers  == {11, 12}                \* binder threads
Workers  == 1..MaxThreads           \* incarnations of the dispatch thread
Threads  == Callers \cup Workers

NULL    == "NULL"                   \* the null callback
Handles == {"cb1", "cb2"}           \* IUsbCallback handles

Ports     == {"port0"}
PortOrder == <<"port0">>            \* iteration order of the names map

\* seconds added to the monotonic clock for the partner wait (time unit of
\* the model: one tick)
PORT_TYPE_TIMEOUT == 2

Kinds == {"powerRole", "dataRole", "mode"}
RoleValues(kind) ==
    CASE kind = "powerRole" -> {"SOURCE", "SINK"}
      [] kind = "dataRole"  -> {"HOST", "DEVICE"}
      [] kind = "mode"      -> {"UFP", "DFP"}

\* /sys/class/typec/<port>-partner: absent, or present with accessory_mode
PartnerKinds == {"none", "analog_audio", "debug"}
AttachKinds  == {"none", "analog_audio"}    \* the partners that are plugged in
Absent == "absent"

\* ------------------------------------------------------- pure functions
\* appendRoleNodeHelper: the node of a role kind ("" for an unknown tag)
appendRoleNodeHelper(kind) ==
    CASE kind = "dataRole"  -> "data_role"
      [] kind = "powerRole" -> "power_role"
      [] kind = "mode"      -> "port_type"
      [] OTHER              -> ""

\* convertRoletoString: the string written for a role
convertRoletoString(kind, val) ==
    CASE kind = "powerRole" /\ val = "SOURCE" -> "source"
      [] kind = "powerRole" /\ val = "SINK"   -> "sink"
      [] kind = "dataRole"  /\ val = "HOST"   -> "host"
      [] kind = "dataRole"  /\ val = "DEVICE" -> "device"
      [] kind = "mode"      /\ val = "UFP"    -> "sink"
      [] kind = "mode"      /\ val = "DFP"    -> "source"
      [] OTHER                                -> "none"

\* What the kernel shows for a node: every choice, the selected one in
\* brackets, as a sequence of tokens ("[", "]" are tokens of their own).
NodeChoices(node) ==
    CASE node = "power_role" -> <<"source", "sink">>
      [] node = "data_role"  -> <<"host", "device">>
      [] node = "port_type"  -> <<"dual", "source", "sink">>

RECURSIVE ShowChoices(_, _)
ShowChoices(choices, sel) ==
    IF choices = <<>> THEN <<>>
    ELSE (IF Head(choices) = sel THEN <<"[", sel, "]">> ELSE <<Head(choices)>>)
         \o ShowChoices(Tail(choices), sel)

ShowNode(node, sel) == ShowChoices(NodeChoices(node), sel)

\* string::find: the first position of a token, 0 for npos
RECURSIVE FindFrom(_, _, _)
FindFrom(s, tok, i) ==
    IF i > Len(s) THEN 0
    ELSE IF s[i] = tok THEN i ELSE FindFrom(s, tok, i + 1)

\* extractRole: the text between the first "[" and the first "]"
extractRole(roleName) ==
    LET first == FindFrom(roleName, "[", 1)
        last  == FindFrom(roleName, "]", 1)
    IN  IF first # 0 /\ last # 0
        THEN SubSeq(roleName, first + 1, last - 1)
        ELSE roleName

\* ----------------------------------------------------------------- state
VARIABLES
    pc,              \* [Threads -> label]: where each thread is
    call,            \* [Callers -> record]: the binder call in progress
    ops,             \* binder calls issued so far
    mLock,           \* owner of Usb::mLock
    mRoleSwitchLock, \* owner of Usb::mRoleSwitchLock
    mPartnerLock,    \* owner of Usb::mPartnerLock
    mCallback,       \* Usb::mCallback
    mPoll,           \* Usb::mPoll: id of the last thread created
    destroyThread,   \* the global set by sighandler
    mPartnerUp,      \* Usb::mPartnerUp
    mUsbDataEnabled, \* Usb::mUsbDataEnabled
    trace,           \* what has been observed of the run (see NoTrace)
    sigPending,      \* threads with a SIGUSR1 sent and not yet handled
    created,         \* threads created so far
    sock,            \* [Workers -> Seq(message)]: each thread's uevent socket
    sockOpen,        \* [Workers -> BOOLEAN]
    msg,             \* [Workers -> message]: the strings not yet looked at
    wkPorts,         \* [Workers -> Seq(port)]: names in its currentPortStatus
    wkIdx,           \* [Workers -> Nat]: loop index of the reconciliation
    nodes,           \* [Ports -> [power_role, data_role, port_type]]
    partner,         \* [Ports -> Absent or a partner kind]
    events,          \* uevent messages emitted so far
    now,             \* CLOCK_MONOTONIC, in ticks since the origin
    deadline,        \* [Callers -> Nat]: "to" of pthread_cond_timedwait
    err,             \* [Callers -> result of pthread_cond_timedwait]
    spurious,        \* spurious wake-ups so far
    cps,             \* currentPortStatus of the thread inside mLock
    conn,            \* the names map of that computation: port -> connected
    qidx,            \* its loop index
    qstatus,         \* its Status
    hist,            \* node values each port went through during it
    aux              \* [Callers -> record]: what the call has done so far

vars == <<pc, call, ops, mUsbDataEnabled, trace, mLock, mRoleSwitchLock, mPartnerLock, mCallback,
          mPoll, destroyThread, mPartnerUp, sigPending, created, sock,
          sockOpen, msg, wkPorts, wkIdx, nodes, partner, events, now,
          deadline, err, spurious, cps, conn, qidx, qstatus, hist, aux>>

\* groups of variables, for UNCHANGED
locks    == <<mLock, mRoleSwitchLock, mPartnerLock>>
thrVars  == <<mPoll, destroyThread, sigPending, created>>
sockVars == <<sock, sockOpen, msg>>
recVars  == <<wkPorts, wkIdx>>
hwVars   == <<nodes, partner, events>>
timeVars == <<now, deadline, err, spurious>>
snapVars == <<cps, conn, qidx, qstatus, hist>>

\* the arguments of a call: enable is in_enable or in_limit, tx the
\* transaction id; sub tells whether a callback was stored when the call came
NoCall == [op |-> "none", port |-> "port0", kind |-> "mode", val |-> "UFP",
           cb |-> NULL, enable |-> FALSE, tx |-> 1, sub |-> FALSE]

\* what a call has done so far: roleSwitch is the local of switchRole; drp
\* whether switchToDrp ran and reached the node; note the outcome handed to
\* the callback ("dropped" without a callback); recomputed the number of
\* queryVersionHelper runs; timedOut whether the partner wait timed out;
\* path the branch setCallback took ("same", "joined", "esrch", "created",
\* "nothread"); waitStart the clock at the first pthread_cond_timedwait (-1
\* outside the wait)
\* result is the Status an operation other than switchRole computed; failed
\* whether a node write it attempted failed; writes the number of fputs calls
\* of a power-role or data-role switch and wres the result of the last one;
\* topo the result of getTypeCPortNamesHelper in its last recomputation
NoAux  == [roleSwitch |-> FALSE, drp |-> "no", note |-> "none",
           recomputed |-> 0, timedOut |-> FALSE, path |-> "none",
           waitStart |-> -1, result |-> "none", failed |-> FALSE,
           writes |-> 0, wres |-> "none", topo |-> "none",
           done |-> {}, lost |-> {}]

\* a PortStatus as resize() leaves it
DefaultStatus == [portName |-> "", currentPowerRole |-> "NONE",
                  currentDataRole |-> "NONE", currentMode |-> "NONE",
                  usbDataStatus |-> {}, complianceWarnings |-> <<>>,
                  canChangeMode |-> FALSE, canChangeDataRole |-> FALSE,
                  canChangePowerRole |-> FALSE, powerBrickStatus |-> "UNKNOWN"]

\* observations that are not state of the program: data is the last
\* enableUsbData that went past its writes ("off_ok", "off_fail", "on_ok",
\* "on_fail"); seen the value of data when the running status computation
\* took mLock; topo the result of its getTypeCPortNamesHelper; query the
\* Status of its last getCurrentRoleHelper call and kind the role asked for
\* pd the texts the two canSwitchRoleHelper calls of the last port read and
\* usbType the text of usb_type ("unread" when it was not read); reasons the
\* text of non_compliant_reasons and flags the two usb_flags the last
\* queryNonCompliantChargerStatus saw
Unreadable == <<"(unreadable)">>
NoTrace == [data |-> "none", seen |-> "none", topo |-> "none",
            query |-> "none", kind |-> "none",
            pd |-> <<>>, usbType |-> "unread",
            reasons |-> Unreadable, flags |-> <<FALSE, FALSE>>]

Init ==
    /\ pc = [t \in Threads |-> IF t \in Callers THEN "idle" ELSE "unborn"]
    /\ call = [c \in Callers |-> NoCall]
    /\ ops = 0
    /\ mLock = NoThread
    /\ mRoleSwitchLock = NoThread
    /\ mPartnerLock = NoThread
    /\ mCallback = NULL
    /\ mPoll = NoThread
    /\ destroyThread = FALSE
    /\ mPartnerUp = FALSE
    /\ mUsbDataEnabled = TRUE
    /\ trace = NoTrace
    /\ sigPending = {}
    /\ created = 0
    /\ sock = [w \in Workers |-> <<>>]
    /\ sockOpen = [w \in Workers |-> FALSE]
    /\ msg = [w \in Workers |-> <<>>]
    /\ wkPorts = [w \in Workers |-> <<>>]
    /\ wkIdx = [w \in Workers |-> 0]
    /\ nodes = [p \in Ports |-> [power_role |-> "sink", data_role |-> "device",
                                 port_type |-> "dual"]]
    /\ partner = [p \in Ports |-> Absent]
    /\ events = 0
    /\ now = 0
    /\ deadline = [c \in Callers |-> 0]
    /\ err = [c \in Callers |-> "none"]
    /\ spurious = 0
    /\ cps = <<>>
    /\ conn = [p \in Ports |-> FALSE]
    /\ qidx = 0
    /\ qstatus = "none"
    /\ hist = [p \in Ports |-> {}]
    /\ aux = [c \in Callers |-> NoAux]

\* --------------------------------------------------------------- helpers
Alive(w) == w \in Workers /\ pc[w] \notin {"unborn", "wk_dead", "wk_joined"}

SetAux(c, field, v) == [aux EXCEPT ![c][field] = v]

\* a write(2) to a sysfs node that the kernel accepted; hist follows the
\* values a port goes through while a status computation is reading nodes
HwWrite(p, node, v) ==
    /\ nodes' = [nodes EXCEPT ![p][node] = v]
    /\ hist' = IF qstatus = "running"
               THEN [hist EXCEPT ![p] = @ \cup {[nodes[p] EXCEPT ![node] = v]}]
               ELSE hist

\* a uevent message reaches every open uevent socket
Broadcast(m) ==
    sock' = [w \in Workers |-> IF sockOpen[w] THEN Append(sock[w], m) ELSE sock[w]]

\* the kernel's messages, as the classes of their NUL-separated strings:
\* "partner_add" matches the regex (add)(.*)(-partner); "topology" starts
\* with DEVTYPE=typec_, DRIVER=max77759tcpc, DRIVER=pogo-transport or
\* POWER_SUPPLY_NAME=usb; "other" is any string no branch of uevent_event
\* acts on.  The message of a new partner carries DEVTYPE=typec_partner.
AttachMsg  == <<"partner_add", "topology">>
DetachMsg  == <<"other", "topology", "other">>

\* where queryVersionHelper returns to
RetLabel(t) ==
    IF t \in Workers THEN "wk_try"
    ELSE IF call[t].op = "queryPortStatus" THEN "qp_lock" ELSE "ret"

\* a call is handed to the first idle binder thread
CanStart(c) ==
    /\ pc[c] = "idle" /\ ops < MaxOps
    /\ \A d \in Callers : d < c => pc[d] # "idle"


\* -------------------------------------------------- binder calls: entry
\* Usb::switchRole, lines 611-621, called with a role of one of kinds: the
\* node name; an unknown tag returns
CallSwitchRoleOf(c, kinds) ==
    /\ CanStart(c)
    /\ \E p \in Ports, kind \in kinds :
         \E val \in RoleValues(kind) :
           /\ call' = [call EXCEPT ![c] =
                         [NoCall EXCEPT !.op = "switchRole", !.port = p,
                                        !.kind = kind, !.val = val,
                                        !.sub = mCallback # NULL]]
           /\ pc' = [pc EXCEPT ![c] = IF appendRoleNodeHelper(kind) = ""
                                      THEN "ret" ELSE "sr_lock"]
    /\ ops' = ops + 1
    /\ UNCHANGED <<mUsbDataEnabled, trace, locks, mCallback, thrVars, mPartnerUp, sockVars,
                   recVars,
                   hwVars, timeVars, snapVars, aux>>

\* the call with a role of any kind
CallSwitchRole(c) == CallSwitchRoleOf(c, Kinds)

\* Usb::queryPortStatus, line 1011: queryVersionHelper first
CallQueryPortStatus(c) ==
    /\ CanStart(c)
    /\ call' = [call EXCEPT ![c] = [NoCall EXCEPT !.op = "queryPortStatus",
                                                  !.sub = mCallback # NULL]]
    /\ pc' = [pc EXCEPT ![c] = "qv_lock"]
    /\ ops' = ops + 1
    /\ UNCHANGED <<mUsbDataEnabled, trace, locks, mCallback, thrVars, mPartnerUp, sockVars,
                   recVars,
                   hwVars, timeVars, snapVars, aux>>

\* Usb::setCallback, entry
CallSetCallback(c) ==
    /\ CanStart(c)
    /\ \E cb \in Handles \cup {NULL} :
         call' = [call EXCEPT ![c] = [NoCall EXCEPT !.op = "setCallback", !.cb = cb,
                                                     !.sub = mCallback # NULL]]
    /\ pc' = [pc EXCEPT ![c] = "sc_lock"]
    /\ ops' = ops + 1
    /\ UNCHANGED <<mUsbDataEnabled, trace, locks, mCallback, thrVars, mPartnerUp, sockVars,
                   recVars,
                   hwVars, timeVars, snapVars, aux>>

\* the sysfs files enableUsbData writes: PULLUP_PATH, ID_PATH, VBUS_PATH and
\* USB_DATA_PATH
DataFiles == {"pullup", "id", "vbus", "usb_data"}

\* what ReadFileToString(PULLUP_PATH) finds: nothing, kGadgetName or "none"
PullupReads == {"unreadable", "gadget", "none"}

\* lines 133-175: the files enableUsbData writes to, in_enable and the
\* pull-up being what they are and dataFlag the value of mUsbDataEnabled read
\* at line 134
DataWrites(in_enable, dataFlag, pullup) ==
    IF in_enable
    THEN IF dataFlag THEN {}
         ELSE (IF pullup = "none" THEN {"pullup"} ELSE {}) \cup {"usb_data"}
    ELSE (IF pullup = "gadget" THEN {"pullup"} ELSE {}) \cup {"id", "vbus", "usb_data"}

\* a fault of enableUsbData: a failed write of VBUS_PATH is only logged
DataResultVbusIgnored(in_enable, dataFlag, pullup, ok) ==
    LET r1 == IF "pullup" \in DataWrites(in_enable, dataFlag, pullup) /\ ~ok["pullup"]
              THEN FALSE ELSE TRUE
        r2 == IF ~in_enable /\ ~ok["id"] THEN FALSE ELSE r1
        r4 == IF (~in_enable \/ ~dataFlag) /\ ~ok["usb_data"] THEN FALSE ELSE r2
    IN  r4

\* lines 126-175: result, true until a WriteStringToFile returns false; ok
\* tells for each file whether a write to it succeeds
DataResult(in_enable, dataFlag, pullup, ok) ==
    LET r1 == IF "pullup" \in DataWrites(in_enable, dataFlag, pullup) /\ ~ok["pullup"]
              THEN FALSE ELSE TRUE
        r2 == IF ~in_enable /\ ~ok["id"] THEN FALSE ELSE r1
        r3 == IF ~in_enable /\ ~ok["vbus"] THEN FALSE ELSE r2
        r4 == IF (~in_enable \/ ~dataFlag) /\ ~ok["usb_data"] THEN FALSE ELSE r3
    IN  r4

StatusOf(b) == IF b THEN "SUCCESS" ELSE "ERROR"

\* Usb::enableUsbData, lines 124-175: the reads and the writes, PULLUP_PATH
\* being read as one of pullups and the writes going as one of oks tells
CallEnableUsbDataWith(c, pullups, oks) ==
    /\ CanStart(c)
    /\ \E in_enable \in BOOLEAN, pullup \in pullups, ok \in oks :
         /\ call' = [call EXCEPT ![c] =
                       [NoCall EXCEPT !.op = "enableUsbData",
                                      !.enable = in_enable,
                                      !.sub = mCallback # NULL]]
         /\ aux' = [aux EXCEPT
              ![c].result = StatusOf(DataResult(in_enable, mUsbDataEnabled, pullup, ok)),
              ![c].failed = \E f \in DataWrites(in_enable, mUsbDataEnabled, pullup) : ~ok[f],
              ![c].writes = Cardinality(DataWrites(in_enable, mUsbDataEnabled, pullup))]
    /\ pc' = [pc EXCEPT ![c] = "eu_store"]
    /\ ops' = ops + 1
    /\ UNCHANGED <<mUsbDataEnabled, trace, locks, mCallback, thrVars, mPartnerUp, sockVars,
                   recVars, hwVars, timeVars, snapVars>>

\* the call with every reading of PULLUP_PATH and every outcome of the writes
CallEnableUsbData(c) == CallEnableUsbDataWith(c, PullupReads, [DataFiles -> BOOLEAN])

\* a fault of enableUsbData: in_enable is stored whatever the writes returned
EuStoreAlways(c) ==
    /\ pc[c] = "eu_store"
    /\ mUsbDataEnabled' = call[c].enable
    /\ trace' = [trace EXCEPT !.data =
                   IF call[c].enable
                   THEN (IF aux[c].result = "SUCCESS" THEN "on_ok" ELSE "on_fail")
                   ELSE (IF aux[c].result = "SUCCESS" THEN "off_ok" ELSE "off_fail")]
    /\ pc' = [pc EXCEPT ![c] = "op_lock"]
    /\ UNCHANGED <<call, ops, locks, mCallback, thrVars, mPartnerUp, sockVars,
                   recVars, hwVars, timeVars, snapVars, aux>>

\* lines 177-179: if (result) mUsbDataEnabled = in_enable, outside any lock
EuStore(c) ==
    /\ pc[c] = "eu_store"
    /\ mUsbDataEnabled' = IF aux[c].result = "SUCCESS" THEN call[c].enable
                          ELSE mUsbDataEnabled
    /\ trace' = [trace EXCEPT !.data =
                   IF call[c].enable
                   THEN (IF aux[c].result = "SUCCESS" THEN "on_ok" ELSE "on_fail")
                   ELSE (IF aux[c].result = "SUCCESS" THEN "off_ok" ELSE "off_fail")]
    /\ pc' = [pc EXCEPT ![c] = "op_lock"]
    /\ UNCHANGED <<call, ops, locks, mCallback, thrVars, mPartnerUp, sockVars,
                   recVars, hwVars, timeVars, snapVars, aux>>

\* Usb::enableUsbDataWhileDocked, lines 195-211: NOT_SUPPORTED unless
\* move_data_to_usb can be opened; then the write decides
\* a fault of enableUsbDataWhileDocked: the missing node goes unreported
DockedStatusOfWrite(notSupported, success) ==
    IF success THEN "SUCCESS" ELSE "ERROR"

\* lines 215-217: the Status handed to notifyEnableUsbDataWhileDockedStatus
DockedStatus(notSupported, success) ==
    IF notSupported THEN "NOT_SUPPORTED"
    ELSE IF success THEN "SUCCESS" ELSE "ERROR"

CallEnableUsbDataWhileDocked(c) ==
    /\ CanStart(c)
    /\ call' = [call EXCEPT ![c] =
                  [NoCall EXCEPT !.op = "enableUsbDataWhileDocked",
                                 !.sub = mCallback # NULL]]
    /\ \E opened \in BOOLEAN, written \in BOOLEAN :
         LET notSupported == IF opened THEN FALSE ELSE TRUE
             success == IF opened THEN written ELSE TRUE
         IN  aux' = [aux EXCEPT
               ![c].result = DockedStatus(notSupported, success),
               ![c].failed = ~success,
               ![c].writes = IF opened THEN 1 ELSE 0,
               ![c].path = IF opened THEN "node" ELSE "no_node",
               ![c].done = IF opened THEN {"move_data_to_usb"} ELSE {},
               ![c].lost = IF opened /\ ~written THEN {"move_data_to_usb"} ELSE {}]
    /\ pc' = [pc EXCEPT ![c] = "op_lock"]
    /\ ops' = ops + 1
    /\ UNCHANGED <<mUsbDataEnabled, trace, locks, mCallback, thrVars, mPartnerUp, sockVars,
                   recVars, hwVars, timeVars, snapVars>>

\* Usb::resetUsbPort, lines 229-238: "none" is written to PULLUP_PATH
CallResetUsbPort(c) ==
    /\ CanStart(c)
    /\ call' = [call EXCEPT ![c] =
                  [NoCall EXCEPT !.op = "resetUsbPort", !.sub = mCallback # NULL]]
    /\ \E success \in BOOLEAN :
         aux' = [aux EXCEPT ![c].result = StatusOf(success),
                            ![c].failed = ~success,
                            ![c].writes = 1]
    /\ pc' = [pc EXCEPT ![c] = "op_lock"]
    /\ ops' = ops + 1
    /\ UNCHANGED <<mUsbDataEnabled, trace, locks, mCallback, thrVars, mPartnerUp, sockVars,
                   recVars, hwVars, timeVars, snapVars>>

\* Usb::enableContaminantPresenceDetection, lines 1026-1033: the write is
\* left out when the property vendor.usb.contaminantdisable is "true"
CallEnableContaminantPresenceDetection(c) ==
    /\ CanStart(c)
    /\ \E in_enable \in BOOLEAN, disable \in BOOLEAN, success \in BOOLEAN :
         /\ call' = [call EXCEPT ![c] =
                       [NoCall EXCEPT !.op = "enableContaminantPresenceDetection",
                                      !.enable = in_enable,
                                      !.sub = mCallback # NULL]]
         /\ aux' = [aux EXCEPT ![c].result = StatusOf(disable \/ success),
                               ![c].failed = ~disable /\ ~success,
                               ![c].writes = IF disable THEN 0 ELSE 1]
    /\ pc' = [pc EXCEPT ![c] = "op_lock"]
    /\ ops' = ops + 1
    /\ UNCHANGED <<mUsbDataEnabled, trace, locks, mCallback, thrVars, mPartnerUp, sockVars,
                   recVars, hwVars, timeVars, snapVars>>

\* lines 180, 213, 240, 1035: pthread_mutex_lock(&mLock)
OpLock(c) ==
    /\ pc[c] = "op_lock" /\ mLock = NoThread
    /\ mLock' = c
    /\ pc' = [pc EXCEPT ![c] = "op_notify"]
    /\ UNCHANGED <<call, ops, mUsbDataEnabled, trace, mRoleSwitchLock, mPartnerLock, mCallback,
                   thrVars, mPartnerUp, sockVars, recVars, hwVars, timeVars,
                   snapVars, aux>>

\* a fault of the data operations: the status is handed over without
\* looking at mCallback
OpNotifyUnchecked(c) ==
    /\ pc[c] = "op_notify"
    /\ aux' = SetAux(c, "note", aux[c].result)
    /\ mLock' = NoThread
    /\ pc' = [pc EXCEPT ![c] = IF call[c].op = "resetUsbPort" THEN "ret"
                               ELSE "qv_lock"]
    /\ UNCHANGED <<call, ops, mUsbDataEnabled, trace, mRoleSwitchLock, mPartnerLock, mCallback,
                   thrVars, mPartnerUp, sockVars, recVars, hwVars, timeVars,
                   snapVars>>

\* lines 181-190, 214-224, 241-251, 1036-1047: the notification of the
\* operation, if there is a callback; mLock is released; resetUsbPort returns
\* while the other three go on to queryVersionHelper
OpNotify(c) ==
    /\ pc[c] = "op_notify"
    /\ aux' = SetAux(c, "note", IF mCallback # NULL THEN aux[c].result
                                ELSE "dropped")
    /\ mLock' = NoThread
    /\ pc' = [pc EXCEPT ![c] = IF call[c].op = "resetUsbPort" THEN "ret"
                               ELSE "qv_lock"]
    /\ UNCHANGED <<call, ops, mUsbDataEnabled, trace, mRoleSwitchLock, mPartnerLock, mCallback,
                   thrVars, mPartnerUp, sockVars, recVars, hwVars, timeVars,
                   snapVars>>

\* the transaction ids limitPowerTransfer is called with
TransactionIds == {-1, 1}

\* Usb::limitPowerTransfer, lines 671-683: without the i2c client (not found
\* before and not found by getI2cClientPath now) the call returns
CallLimitPowerTransferWith(c, txs) ==
    /\ CanStart(c)
    /\ \E in_limit \in BOOLEAN, tx \in txs, located \in BOOLEAN :
         /\ call' = [call EXCEPT ![c] =
                       [NoCall EXCEPT !.op = "limitPowerTransfer",
                                      !.enable = in_limit, !.tx = tx,
                                      !.sub = mCallback # NULL]]
         /\ pc' = [pc EXCEPT ![c] = IF located THEN "lp_lock" ELSE "ret"]
    /\ ops' = ops + 1
    /\ UNCHANGED <<mUsbDataEnabled, trace, locks, mCallback, thrVars, mPartnerUp, sockVars,
                   recVars, hwVars, timeVars, snapVars, aux>>

\* the call with any of the transaction ids
CallLimitPowerTransfer(c) == CallLimitPowerTransferWith(c, TransactionIds)

\* line 689: pthread_mutex_lock(&mLock)
LpLock(c) ==
    /\ pc[c] = "lp_lock" /\ mLock = NoThread
    /\ mLock' = c
    /\ pc' = [pc EXCEPT ![c] = "lp_write"]
    /\ UNCHANGED <<call, ops, mUsbDataEnabled, trace, mRoleSwitchLock, mPartnerLock, mCallback,
                   thrVars, mPartnerUp, sockVars, recVars, hwVars, timeVars,
                   snapVars, aux>>

\* the files limitPowerTransfer writes: usb_limit_sink_current,
\* usb_limit_sink_enable, usb_limit_source_enable
LimitFiles == {"sink_current", "sink_enable", "source_enable"}
LimitWrites(in_limit) ==
    (IF in_limit THEN {"sink_current"} ELSE {}) \cup {"sink_enable", "source_enable"}

\* a fault of limitPowerTransfer: sessionFail is assigned from each write
\* instead of only being raised, so the last write decides
LimitSessionFailLastWins(in_limit, ok) == ~ok["source_enable"]

\* lines 690-709: sessionFail starts false and is set, never cleared, after
\* each WriteStringToFile that returns false; ok[f] is the result of the
\* write to f
LimitSessionFail(in_limit, ok) ==
    LET afterCurrent == IF in_limit /\ ~ok["sink_current"] THEN TRUE ELSE FALSE
        afterSink    == IF ~ok["sink_enable"] THEN TRUE ELSE afterCurrent
        afterSource  == IF ~ok["source_enable"] THEN TRUE ELSE afterSink
    IN  afterSource

\* lines 690-721: the writes, each attempted whatever the one before did;
\* notifyLimitPowerTransferStatus if there is a callback and the transaction
\* id is not negative; mLock is released.  done is the set of files written
\* to and lost the set of files whose write returned false; the writes go
\* as one of oks tells.
LpWriteWith(c, oks) ==
    /\ pc[c] = "lp_write"
    /\ \E ok \in oks :
         LET sessionFail == LimitSessionFail(call[c].enable, ok)
         IN  aux' = [aux EXCEPT
               ![c].result = StatusOf(~sessionFail),
               ![c].failed = sessionFail,
               ![c].writes = Cardinality(LimitWrites(call[c].enable)),
               ![c].done = LimitWrites(call[c].enable),
               ![c].lost = {f \in LimitWrites(call[c].enable) : ~ok[f]},
               ![c].note = IF mCallback # NULL /\ call[c].tx >= 0
                           THEN StatusOf(~sessionFail) ELSE "dropped"]
    /\ mLock' = NoThread
    /\ pc' = [pc EXCEPT ![c] = "qv_lock"]
    /\ UNCHANGED <<call, ops, mUsbDataEnabled, trace, mRoleSwitchLock, mPartnerLock, mCallback,
                   thrVars, mPartnerUp, sockVars, recVars, hwVars, timeVars,
                   snapVars>>

\* the step with every outcome of the writes
LpWrite(c) == LpWriteWith(c, [LimitFiles -> BOOLEAN])

\* return ScopedAStatus::ok()
Return(c) ==
    /\ pc[c] = "ret"
    /\ pc' = [pc EXCEPT ![c] = "idle"]
    /\ call' = [call EXCEPT ![c] = NoCall]
    /\ aux' = [aux EXCEPT ![c] = NoAux]
    /\ UNCHANGED <<ops, mUsbDataEnabled, trace, locks, mCallback, thrVars, mPartnerUp, sockVars,
                   recVars, hwVars, timeVars, snapVars>>

\* a fault of setCallback: the same-state branch also signals the thread
ScSameSignals(c) ==
    /\ pc[c] = "sc_lock" /\ mLock = NoThread
    /\ (mCallback = NULL) = (call[c].cb = NULL)
    /\ mCallback' = call[c].cb
    /\ sigPending' = IF Alive(mPoll) THEN sigPending \cup {mPoll} ELSE sigPending
    /\ pc' = [pc EXCEPT ![c] = "ret"]
    /\ aux' = SetAux(c, "path", "same")
    /\ UNCHANGED <<call, ops, mUsbDataEnabled, trace, locks, mPoll, destroyThread, created, mPartnerUp,
                   sockVars, recVars, hwVars, timeVars, snapVars>>

\* ------------------------------------------------------ Usb::setCallback
\* lines 1218-1224: under mLock, NULL -> NULL and non-NULL -> non-NULL store
\* the handle, unlock and return
ScSame(c) ==
    /\ pc[c] = "sc_lock" /\ mLock = NoThread
    /\ (mCallback = NULL) = (call[c].cb = NULL)
    /\ mCallback' = call[c].cb
    /\ pc' = [pc EXCEPT ![c] = "ret"]
    /\ aux' = SetAux(c, "path", "same")
    /\ UNCHANGED <<call, ops, mUsbDataEnabled, trace, locks, thrVars, mPartnerUp, sockVars, recVars,
                   hwVars, timeVars, snapVars>>

\* lines 1218, 1226-1239: mLock is taken and kept, the handle is stored; for
\* NULL towards pthread_kill, else destroyThread is reset and the handler
\* installed before the thread is created
ScChange(c) ==
    /\ pc[c] = "sc_lock" /\ mLock = NoThread
    /\ (mCallback = NULL) # (call[c].cb = NULL)
    /\ mLock' = c
    /\ mCallback' = call[c].cb
    /\ IF call[c].cb = NULL
       THEN /\ pc' = [pc EXCEPT ![c] = "sc_kill"]
            /\ UNCHANGED destroyThread
       ELSE /\ pc' = [pc EXCEPT ![c] = "sc_create"]
            /\ destroyThread' = FALSE
    /\ UNCHANGED <<call, ops, mUsbDataEnabled, trace, mRoleSwitchLock, mPartnerLock, mPoll, sigPending,
                   created, mPartnerUp, sockVars, recVars, hwVars, timeVars,
                   snapVars, aux>>

\* a fault of setCallback: the signal is sent and the thread is not joined
ScKillNoJoin(c) ==
    /\ pc[c] = "sc_kill"
    /\ sigPending' = IF Alive(mPoll) THEN sigPending \cup {mPoll} ELSE sigPending
    /\ mLock' = NoThread
    /\ pc' = [pc EXCEPT ![c] = "ret"]
    /\ aux' = SetAux(c, "path", "esrch")
    /\ UNCHANGED <<call, ops, mUsbDataEnabled, trace, mRoleSwitchLock, mPartnerLock, mCallback,
                   mPoll, destroyThread, created, mPartnerUp, sockVars, recVars,
                   hwVars, timeVars, snapVars>>

\* line 1230: pthread_kill(mPoll, SIGUSR1).  For a running thread it returns
\* 0 and the signal is pending; for a thread that has ended it returns 0 or
\* ESRCH, as the C library decides, and ESRCH skips the join.
ScKill(c) ==
    /\ pc[c] = "sc_kill"
    /\ \/ /\ Alive(mPoll)
          /\ sigPending' = sigPending \cup {mPoll}
          /\ pc' = [pc EXCEPT ![c] = "sc_join"]
          /\ UNCHANGED <<mLock, aux>>
       \/ /\ ~Alive(mPoll)
          /\ pc' = [pc EXCEPT ![c] = "sc_join"]
          /\ UNCHANGED <<sigPending, mLock, aux>>
       \/ /\ ~Alive(mPoll)
          /\ mLock' = NoThread
          /\ pc' = [pc EXCEPT ![c] = "ret"]
          /\ aux' = SetAux(c, "path", "esrch")
          /\ UNCHANGED sigPending
    /\ UNCHANGED <<call, ops, mUsbDataEnabled, trace, mRoleSwitchLock, mPartnerLock, mCallback,
                   mPoll, destroyThread, created, mPartnerUp, sockVars, recVars,
                   hwVars, timeVars, snapVars>>

\* a fault of setCallback: pthread_join returns while the thread still runs
ScJoinNoWait(c) ==
    /\ pc[c] = "sc_join"
    /\ pc' = [t \in Threads |->
                IF t = c THEN "ret"
                ELSE IF t = mPoll /\ pc[t] = "wk_dead" THEN "wk_joined"
                ELSE pc[t]]
    /\ mLock' = NoThread
    /\ aux' = SetAux(c, "path", "joined")
    /\ UNCHANGED <<call, ops, mUsbDataEnabled, trace, mRoleSwitchLock, mPartnerLock, mCallback,
                   thrVars, mPartnerUp, sockVars, recVars, hwVars, timeVars,
                   snapVars>>

\* lines 1231-1235: pthread_join returns once the thread has ended; then
\* mLock is released
ScJoin(c) ==
    /\ pc[c] = "sc_join"
    /\ ~Alive(mPoll)
    /\ pc' = [t \in Threads |->
                IF t = c THEN "ret"
                ELSE IF t = mPoll /\ pc[t] = "wk_dead" THEN "wk_joined"
                ELSE pc[t]]
    /\ mLock' = NoThread
    /\ aux' = SetAux(c, "path", "joined")
    /\ UNCHANGED <<call, ops, mUsbDataEnabled, trace, mRoleSwitchLock, mPartnerLock, mCallback,
                   thrVars, mPartnerUp, sockVars, recVars, hwVars, timeVars,
                   snapVars>>

\* lines 1245-1251: pthread_create(&mPoll, NULL, work, this); on failure the
\* callback is dropped again; mLock is released
ScCreate(c) ==
    /\ pc[c] = "sc_create"
    /\ \/ /\ created < MaxThreads
          /\ created' = created + 1
          /\ mPoll' = created + 1
          /\ pc' = [pc EXCEPT ![c] = "ret", ![created + 1] = "wk_start"]
          /\ aux' = SetAux(c, "path", "created")
          /\ UNCHANGED mCallback
       \/ /\ mCallback' = NULL
          /\ pc' = [pc EXCEPT ![c] = "ret"]
          /\ aux' = SetAux(c, "path", "nothread")
          /\ UNCHANGED <<created, mPoll>>
    /\ mLock' = NoThread
    /\ UNCHANGED <<call, ops, mUsbDataEnabled, trace, mRoleSwitchLock, mPartnerLock, destroyThread,
                   sigPending, mPartnerUp, sockVars, recVars, hwVars, timeVars,
                   snapVars>>

\* ------------------------------------------------ the dispatch thread: work
\* lines 1154-1178: the uevent socket and the epoll set; a failure ends the
\* thread
WkStart(w) ==
    /\ pc[w] = "wk_start"
    /\ \/ /\ sockOpen' = [sockOpen EXCEPT ![w] = TRUE]
          /\ pc' = [pc EXCEPT ![w] = "wk_loop"]
          /\ UNCHANGED sigPending
       \/ /\ pc' = [pc EXCEPT ![w] = "wk_dead"]
          /\ sigPending' = sigPending \ {w}
          /\ UNCHANGED sockOpen
    /\ UNCHANGED <<call, ops, mUsbDataEnabled, trace, locks, mCallback, mPoll, destroyThread, created,
                   mPartnerUp, sock, msg, recVars, hwVars, timeVars, snapVars, aux>>

\* line 1180: while (!destroyThread); lines 1198-1205 when it is set
WkLoop(w) ==
    /\ pc[w] = "wk_loop"
    /\ IF destroyThread
       THEN /\ pc' = [pc EXCEPT ![w] = "wk_dead"]
            /\ sockOpen' = [sockOpen EXCEPT ![w] = FALSE]
            /\ sock' = [sock EXCEPT ![w] = <<>>]
            /\ sigPending' = sigPending \ {w}
       ELSE /\ pc' = [pc EXCEPT ![w] = "wk_epoll"]
            /\ UNCHANGED <<sockOpen, sock, sigPending>>
    /\ UNCHANGED <<call, ops, mUsbDataEnabled, trace, locks, mCallback, mPoll, destroyThread, created,
                   mPartnerUp, msg, recVars, hwVars, timeVars, snapVars, aux>>

\* line 1183: the thread enters epoll_wait(epoll_fd, events, 64, -1)
WkEpoll(w) ==
    /\ pc[w] = "wk_epoll"
    /\ pc' = [pc EXCEPT ![w] = "wk_blocked"]
    /\ UNCHANGED <<call, ops, mUsbDataEnabled, trace, locks, mCallback, thrVars, mPartnerUp, sockVars,
                   recVars, hwVars, timeVars, snapVars, aux>>

\* uevent_event, lines 1103-1143: the branch the string at cp selects
NextField(m) ==
    IF m = <<>> THEN "wk_loop"
    ELSE CASE Head(m) = "partner_add" -> "wk_plock"
           [] Head(m) = "topology"    -> "qv_lock"
           [] OTHER                   -> "wk_skip"

\* lines 1191-1195 and 1093-1103: epoll_wait reports the socket readable and
\* uevent_event receives one message
WkRecv(w) ==
    /\ pc[w] = "wk_blocked"
    /\ sock[w] # <<>>
    /\ msg' = [msg EXCEPT ![w] = Head(sock[w])]
    /\ sock' = [sock EXCEPT ![w] = Tail(sock[w])]
    /\ pc' = [pc EXCEPT ![w] = NextField(Head(sock[w]))]
    /\ UNCHANGED <<call, ops, mUsbDataEnabled, trace, locks, mCallback, thrVars, mPartnerUp, sockOpen,
                   recVars, hwVars, timeVars, snapVars, aux>>

\* sighandler, run by the thread the signal was sent to: destroyThread is
\* set; an epoll_wait in progress returns EINTR and the loop continues
HandleSignal(w) ==
    /\ w \in sigPending /\ Alive(w)
    /\ sigPending' = sigPending \ {w}
    /\ destroyThread' = TRUE
    /\ pc' = [pc EXCEPT ![w] = IF pc[w] = "wk_blocked" THEN "wk_loop" ELSE pc[w]]
    /\ UNCHANGED <<call, ops, mUsbDataEnabled, trace, locks, mCallback, mPoll, created, mPartnerUp,
                   sockVars, recVars, hwVars, timeVars, snapVars, aux>>

\* ------------------------------------------------ the kernel's side
PartnerAttach(p) ==
    /\ events < MaxEvents
    /\ partner[p] = Absent
    /\ \E k \in AttachKinds : partner' = [partner EXCEPT ![p] = k]
    /\ Broadcast(AttachMsg)
    /\ events' = events + 1
    /\ UNCHANGED <<pc, call, ops, mUsbDataEnabled, trace, locks, mCallback, thrVars, mPartnerUp,
                   sockOpen, msg, recVars, nodes, timeVars, snapVars, aux>>

PartnerDetach(p) ==
    /\ events < MaxEvents
    /\ partner[p] # Absent
    /\ partner' = [partner EXCEPT ![p] = Absent]
    /\ Broadcast(DetachMsg)
    /\ events' = events + 1
    /\ UNCHANGED <<pc, call, ops, mUsbDataEnabled, trace, locks, mCallback, thrVars, mPartnerUp,
                   sockOpen, msg, recVars, nodes, timeVars, snapVars, aux>>

\* ------------------------------------------------- status aggregation
\* getCurrentRoleHelper, lines 764-829, for the role kind of currentRole: the
\* Status and the value left in currentRole, from the nodes h of the port and
\* its partner directory part.  accessory_mode is a file of
\* the partner directory; the role is read from power_role for the power
\* role and from data_role for the data role and for the mode.
getCurrentRoleHelper(h, part, connected, kind) ==
    LET filename == IF kind = "powerRole" THEN "power_role" ELSE "data_role"
        roleName == extractRole(ShowNode(filename, h[filename]))
        isData   == kind = "dataRole"
    IN  IF ~connected THEN [st |-> "SUCCESS", val |-> "NONE"]
        ELSE IF kind = "mode" /\ part = Absent
             THEN [st |-> "ERROR", val |-> "NONE"]
        ELSE IF kind = "mode" /\ part = "analog_audio"
             THEN [st |-> "SUCCESS", val |-> "AUDIO_ACCESSORY"]
        ELSE IF kind = "mode" /\ part = "debug"
             THEN [st |-> "SUCCESS", val |-> "DEBUG_ACCESSORY"]
        ELSE IF roleName = <<"source">> THEN [st |-> "SUCCESS", val |-> "SOURCE"]
        ELSE IF roleName = <<"sink">> THEN [st |-> "SUCCESS", val |-> "SINK"]
        ELSE IF roleName = <<"host">>
             THEN [st |-> "SUCCESS", val |-> IF isData THEN "HOST" ELSE "DFP"]
        ELSE IF roleName = <<"device">>
             THEN [st |-> "SUCCESS", val |-> IF isData THEN "DEVICE" ELSE "UFP"]
        ELSE IF roleName # <<"none">>
             THEN [st |-> "UNRECOGNIZED_ROLE", val |-> "NONE"]
        ELSE [st |-> "SUCCESS", val |-> "NONE"]

\* what ReadFileToString may find in the role files of a port whose nodes
\* are h: the kernel's text for them, or a text no branch of
\* getCurrentRoleHelper knows
Garbled == "garbled"
RoleReads(h) ==
    {h, [h EXCEPT !.power_role = Garbled], [h EXCEPT !.data_role = Garbled]}

\* a fault of getPortStatusHelper: the dock hides the forced state
usbDataStatusDockFirst(pogoUsbActive, dataFlag) ==
    IF pogoUsbActive THEN {"DISABLED_DOCK_DEVICE_MODE"}
    ELSE IF ~dataFlag THEN {"DISABLED_FORCE"}
    ELSE {"ENABLED"}

\* lines 919-938: usbDataStatus from pogo_usb_active and mUsbDataEnabled
usbDataStatusOf(pogoUsbActive, dataFlag) ==
    (IF pogoUsbActive THEN {"DISABLED_DOCK_DEVICE_MODE"} ELSE {})
    \cup (IF ~dataFlag THEN {"DISABLED_FORCE"} ELSE {})
    \cup (IF ~pogoUsbActive /\ dataFlag THEN {"ENABLED"} ELSE {})

\* The text of a file is the sequence of its pieces: a delimiter or a line
\* end is a piece of its own, and so is every word the code looks for.
\* Trim (android::base::Trim) drops the white space at both ends.
WhiteSpace == {" ", "\n"}
RECURSIVE TrimLeft(_)
TrimLeft(text) ==
    IF text # <<>> /\ Head(text) \in WhiteSpace THEN TrimLeft(Tail(text)) ELSE text
RECURSIVE TrimRight(_)
TrimRight(text) ==
    IF text # <<>> /\ text[Len(text)] \in WhiteSpace
    THEN TrimRight(SubSeq(text, 1, Len(text) - 1)) ELSE text
Trim(text) == TrimRight(TrimLeft(text))

\* a fault of canSwitchRoleHelper: any readable file counts as support
canSwitchRoleAnyText(supportsPD) == supportsPD # Unreadable

\* canSwitchRoleHelper, lines 859-871: supports_usb_power_delivery of the
\* partner directory was read as supportsPD (Unreadable when
\* ReadFileToString failed); true only for the text "yes"
canSwitchRoleHelper(supportsPD) ==
    IF supportsPD # Unreadable
    THEN (IF Trim(supportsPD) = <<"yes">> THEN TRUE ELSE FALSE)
    ELSE FALSE

\* what supports_usb_power_delivery is read as
PdTexts == {<<"yes", "\n">>, <<"no", "\n">>, Unreadable}

\* lines 940-958: powerBrickStatus of a port; usbType is what usb_type was
\* read as ("[D" and "[U" are looked for with strstr; a failed read leaves
\* the field as it is)
powerBrickStatusOf(st, connected, usbType) ==
    IF connected
    THEN IF st.currentPowerRole = "SOURCE" THEN "NOT_CONNECTED"
         ELSE IF usbType # Unreadable
              THEN (IF \E i \in 1..Len(usbType) : usbType[i] = "[D" THEN "CONNECTED"
                    ELSE IF \E i \in 1..Len(usbType) : usbType[i] = "[U" THEN "UNKNOWN"
                    ELSE "NOT_CONNECTED")
              ELSE st.powerBrickStatus
    ELSE "NOT_CONNECTED"

\* what usb_type is read as: the selected type in brackets among the others
UsbTypeTexts == {<<"Unknown", " ", "[D", "CP]", "\n">>,
                 <<"[U", "nknown]", " ", "DCP", "\n">>,
                 <<"[S", "DP]", " ", "DCP", "\n">>,
                 Unreadable}

\* lines 911-915 and 940-958: the capability flags and the power brick of
\* an element whose three roles are set
WithCapabilities(st, connected, pdData, pdPower, usbType) ==
    [st EXCEPT
       !.canChangeMode = TRUE,
       !.canChangeDataRole = IF connected THEN canSwitchRoleHelper(pdData) ELSE FALSE,
       !.canChangePowerRole = IF connected THEN canSwitchRoleHelper(pdPower) ELSE FALSE,
       !.powerBrickStatus = powerBrickStatusOf(st, connected, usbType)]

\* android::base::Tokenize(reasons, "[], \n\0"), line 312: the pieces
\* between delimiters, empty tokens dropped; cur is the token being read
Delimiters == {"[", "]", ",", " ", "\n"}
RECURSIVE TokenizeFrom(_, _)
TokenizeFrom(text, cur) ==
    IF text = <<>>
    THEN (IF cur = <<>> THEN <<>> ELSE <<cur>>)
    ELSE IF Head(text) \in Delimiters
         THEN (IF cur = <<>> THEN <<>> ELSE <<cur>>) \o TokenizeFrom(Tail(text), <<>>)
         ELSE TokenizeFrom(Tail(text), Append(cur, Head(text)))
Tokenize(text) == TokenizeFrom(text, <<>>)

\* strncmp(reason, word, strlen(word)) == 0: the token starts with the word
StartsWith(reason, word) == reason # <<>> /\ Head(reason) = word

\* a fault of queryNonCompliantChargerStatus: strcmp instead of strncmp, a
\* token has to be the word
ComplianceWarningWholeToken(reason, dataWarning, inputLimited) ==
    CASE reason = <<"debug-accessory">> -> "DEBUG_ACCESSORY"
      [] reason = <<"bc12">>            -> "BC_1_2"
      [] reason = <<"missing_rp">>      -> "MISSING_RP"
      [] reason \in {<<"other">>, <<"input_power_limited">>} ->
            (IF dataWarning /\ inputLimited THEN "INPUT_POWER_LIMITED" ELSE "OTHER")
      [] OTHER                          -> ""

\* lines 314-345: the warning a token of non_compliant_reasons stands for
\* ("" for a token no strncmp matches); dataWarning and inputLimited are
\* usb_flags::enable_usb_data_compliance_warning() and
\* usb_flags::enable_input_power_limited_warning()
ComplianceWarningOf(reason, dataWarning, inputLimited) ==
    IF StartsWith(reason, "debug-accessory") THEN "DEBUG_ACCESSORY"
    ELSE IF StartsWith(reason, "bc12") THEN "BC_1_2"
    ELSE IF StartsWith(reason, "missing_rp") THEN "MISSING_RP"
    ELSE IF StartsWith(reason, "other") \/ StartsWith(reason, "input_power_limited")
         THEN (IF dataWarning /\ inputLimited THEN "INPUT_POWER_LIMITED" ELSE "OTHER")
    ELSE ""

RECURSIVE WarningsOf(_, _, _)
WarningsOf(reasonsList, dataWarning, inputLimited) ==
    IF reasonsList = <<>> THEN <<>>
    ELSE LET w == ComplianceWarningOf(Head(reasonsList), dataWarning, inputLimited)
         IN  (IF w = "" THEN <<>> ELSE <<w>>)
             \o WarningsOf(Tail(reasonsList), dataWarning, inputLimited)

\* what non_compliant_reasons is read as (Unreadable when it cannot be
\* read): every text, and the few of them the specifications of the
\* threads read
AllReasonTexts ==
    {Unreadable, <<>>, <<"\n">>,
     <<"[", "bc12", "]", "\n">>,
     <<"[", "unknown", "]", "\n">>,
     <<"[", "bc12", "]", ",", " ", "[", "missing_rp", "]", "\n">>,
     <<"[", "other", "]", "\n">>,
     <<"[", "input_power_limited", "]", "\n">>,
     <<"[", "debug-accessory", "]", ",", " ", "[", "other", "]">>,
     <<"bc12", "_v2", " ", "unknown", "bc12">>}
ReasonTexts == {<<"\n">>, <<"[", "bc12", "]", "\n">>}

\* a fault of queryNonCompliantChargerStatus: the sink state is made up for
\* every element without a power role, warnings or not
NonCompliantAlwaysSink(st, reasons, dataWarning, inputLimited) ==
    IF reasons = Unreadable \/ st.portName = "" THEN st
    ELSE LET warnings == st.complianceWarnings
                         \o WarningsOf(Tokenize(reasons), dataWarning, inputLimited)
         IN  IF st.currentPowerRole = "NONE"
             THEN [st EXCEPT !.complianceWarnings = warnings,
                             !.currentMode = "UFP",
                             !.currentPowerRole = "SINK",
                             !.currentDataRole = "NONE",
                             !.powerBrickStatus = "CONNECTED"]
             ELSE [st EXCEPT !.complianceWarnings = warnings]

\* queryNonCompliantChargerStatus, lines 306-354, for one element of the
\* vector: reasons is what ReadFileToString read (Unreadable when it failed,
\* as it does for an element whose portName was never set)
queryNonCompliantChargerStatus(st, reasons, dataWarning, inputLimited) ==
    IF reasons = Unreadable \/ st.portName = "" THEN st
    ELSE LET warnings == st.complianceWarnings
                         \o WarningsOf(Tokenize(reasons), dataWarning, inputLimited)
         IN  IF Len(warnings) > 0 /\ st.currentPowerRole = "NONE"
             THEN [st EXCEPT !.complianceWarnings = warnings,
                             !.currentMode = "UFP",
                             !.currentPowerRole = "SINK",
                             !.currentDataRole = "NONE",
                             !.powerBrickStatus = "CONNECTED"]
             ELSE [st EXCEPT !.complianceWarnings = warnings]

\* queryVersionHelper, line 991: pthread_mutex_lock(&usb->mLock); then
\* getPortStatusHelper, lines 875-880: getTypeCPortNamesHelper (lines
\* 831-857) lists /sys/class/typec and the vector is resized to the names
QvLock(t) ==
    /\ pc[t] = "qv_lock" /\ mLock = NoThread
    /\ mLock' = t
    /\ \/ /\ conn' = [p \in Ports |-> partner[p] # Absent]
          /\ cps' = [i \in 1..Len(PortOrder) |-> DefaultStatus]
          /\ qidx' = 1
          /\ qstatus' = "running"
          /\ hist' = [p \in Ports |-> {nodes[p]}]
          /\ trace' = [trace EXCEPT !.seen = trace.data, !.topo = "SUCCESS"]
          /\ pc' = [pc EXCEPT ![t] = "qv_power"]
       \/ /\ qstatus' = "ERROR"
          /\ trace' = [trace EXCEPT !.seen = trace.data, !.topo = "ERROR"]
          /\ pc' = [pc EXCEPT ![t] = "qv_post"]
          /\ UNCHANGED <<cps, conn, qidx, hist>>
    /\ UNCHANGED <<call, ops, mUsbDataEnabled, mRoleSwitchLock, mPartnerLock, mCallback, thrVars,
                   mPartnerUp, sockVars, recVars, hwVars, timeVars, aux>>

\* the end of one iteration of the loop of getPortStatusHelper (lines
\* 911-970): the next port, or Status::SUCCESS after the last one
QvNextPort(t) ==
    IF qidx = Len(PortOrder)
    THEN /\ qstatus' = "SUCCESS"
         /\ pc' = [pc EXCEPT ![t] = "qv_post"]
         /\ UNCHANGED qidx
    ELSE /\ qidx' = qidx + 1
         /\ pc' = [pc EXCEPT ![t] = "qv_power"]
         /\ UNCHANGED qstatus

\* a fault of getPortStatusHelper: a failed role query leaves the loop with
\* the result of getTypeCPortNamesHelper
QvDoneKeepsResult(t) ==
    /\ qstatus' = "SUCCESS"
    /\ pc' = [pc EXCEPT ![t] = "qv_post"]
    /\ UNCHANGED qidx

\* "goto done", lines 892, 900, 908, 972-973
QvDone(t) ==
    /\ qstatus' = "ERROR"
    /\ pc' = [pc EXCEPT ![t] = "qv_post"]
    /\ UNCHANGED qidx

\* what the computation remembers of a getCurrentRoleHelper call
Queried(kind, st) == [trace EXCEPT !.query = st, !.kind = kind]

\* lines 884-893: the power role.  For a port that is not connected
\* getCurrentRoleHelper returns NONE for the three roles without reading a
\* node, and the iteration (with lines 911-938) is one step.
QvPower(t) ==
    /\ pc[t] = "qv_power"
    /\ LET p == PortOrder[qidx]
       IN  IF ~conn[p]
           THEN /\ \E pogoUsbActive \in BOOLEAN :
                     cps' = [cps EXCEPT ![qidx] =
                       WithCapabilities(
                         [@ EXCEPT
                            !.portName = p,
                            !.currentPowerRole = getCurrentRoleHelper(nodes[p], partner[p], FALSE, "powerRole").val,
                            !.currentDataRole = getCurrentRoleHelper(nodes[p], partner[p], FALSE, "dataRole").val,
                            !.currentMode = getCurrentRoleHelper(nodes[p], partner[p], FALSE, "mode").val,
                            !.usbDataStatus = usbDataStatusOf(pogoUsbActive, mUsbDataEnabled)],
                         FALSE, Unreadable, Unreadable, Unreadable)]
                /\ trace' = Queried("mode", "SUCCESS")
                /\ QvNextPort(t)
           ELSE \E h \in RoleReads(nodes[p]) :
                  LET r == getCurrentRoleHelper(h, partner[p], conn[p], "powerRole")
                  IN  /\ cps' = [cps EXCEPT ![qidx] =
                            [@ EXCEPT !.portName = p,
                                      !.currentPowerRole = IF r.st = "SUCCESS" THEN r.val ELSE @]]
                      /\ trace' = Queried("powerRole", r.st)
                      /\ IF r.st = "SUCCESS"
                         THEN /\ pc' = [pc EXCEPT ![t] = "qv_data"]
                              /\ UNCHANGED <<qidx, qstatus>>
                         ELSE QvDone(t)
    /\ UNCHANGED <<call, ops, mUsbDataEnabled, locks, mCallback, thrVars, mPartnerUp, sockVars,
                   recVars, hwVars, timeVars, conn, hist, aux>>

\* lines 895-901: the data role
QvData(t) ==
    /\ pc[t] = "qv_data"
    /\ \E h \in RoleReads(nodes[PortOrder[qidx]]) :
         LET p == PortOrder[qidx]
             r == getCurrentRoleHelper(h, partner[p], conn[p], "dataRole")
         IN  /\ trace' = Queried("dataRole", r.st)
             /\ IF r.st = "SUCCESS"
                THEN /\ cps' = [cps EXCEPT ![qidx].currentDataRole = r.val]
                     /\ pc' = [pc EXCEPT ![t] = "qv_mode"]
                     /\ UNCHANGED <<qidx, qstatus>>
                ELSE /\ QvDone(t)
                     /\ UNCHANGED cps
    /\ UNCHANGED <<call, ops, mUsbDataEnabled, locks, mCallback, thrVars, mPartnerUp, sockVars,
                   recVars, hwVars, timeVars, conn, hist, aux>>

\* lines 903-958: the mode, and the rest of the iteration of a connected
\* port: the two canSwitchRoleHelper calls read supports_usb_power_delivery
\* as one of pdTexts each, and unless the power role is SOURCE usb_type is
\* read as one of usbTypeTexts
QvModeReading(t, pdTexts, usbTypeTexts) ==
    /\ pc[t] = "qv_mode"
    /\ \E h \in RoleReads(nodes[PortOrder[qidx]]), pogoUsbActive \in BOOLEAN :
         LET p == PortOrder[qidx]
             r == getCurrentRoleHelper(h, partner[p], conn[p], "mode")
         IN  IF r.st = "SUCCESS"
             THEN \E pdData \in pdTexts, pdPower \in pdTexts :
                  \E usbType \in IF cps[qidx].currentPowerRole = "SOURCE"
                                 THEN {Unreadable} ELSE usbTypeTexts :
                     /\ cps' = [cps EXCEPT ![qidx] =
                           WithCapabilities(
                             [@ EXCEPT
                                !.currentMode = r.val,
                                !.usbDataStatus =
                                    usbDataStatusOf(pogoUsbActive, mUsbDataEnabled)],
                             conn[p], pdData, pdPower, usbType)]
                     /\ trace' = [Queried("mode", r.st) EXCEPT
                                    !.pd = <<pdData, pdPower>>,
                                    !.usbType = IF cps[qidx].currentPowerRole = "SOURCE"
                                                THEN "unread" ELSE usbType]
                     /\ QvNextPort(t)
             ELSE /\ trace' = Queried("mode", r.st)
                  /\ QvDone(t)
                  /\ UNCHANGED cps
    /\ UNCHANGED <<call, ops, mUsbDataEnabled, locks, mCallback, thrVars, mPartnerUp, sockVars,
                   recVars, hwVars, timeVars, conn, hist, aux>>

\* the step with the partner's file saying "yes" and a dedicated charger
\* selected in usb_type
QvMode(t) ==
    QvModeReading(t, {<<"yes", "\n">>}, {<<"Unknown", " ", "[D", "CP]", "\n">>})

\* the step with every text the two files are read as
QvModeAll(t) == QvModeReading(t, PdTexts, UsbTypeTexts)

\* queryVersionHelper, lines 993-996: the queries on the whole vector.
\* queryMoistureDetectionStatus (lines 258-263), queryPowerTransferStatus
\* (line 746) and queryUsbDataSession (lines 981-985) work on element 0 of
\* the vector without looking at its size: on the empty vector a failed
\* getTypeCPortNamesHelper leaves, that is a write through a null pointer,
\* which ends the process or goes unnoticed.  queryNonCompliantChargerStatus
\* goes through the elements that are there.
\* non_compliant_reasons is read as one of reasonTexts, and the two
\* usb_flags are one of flagPairs
QvPostReading(t, reasonTexts, flagPairs) ==
    /\ pc[t] = "qv_post"
    /\ IF cps = <<>>
       THEN /\ \/ pc' = [pc EXCEPT ![t] = "crashed"]
               \/ pc' = [pc EXCEPT ![t] = "qv_tail"]
            /\ UNCHANGED <<cps, trace>>
       ELSE /\ \E reasons \in reasonTexts, flags \in flagPairs :
                 /\ cps' = [i \in 1..Len(cps) |->
                              queryNonCompliantChargerStatus(cps[i], reasons,
                                                             flags[1], flags[2])]
                 /\ trace' = [trace EXCEPT !.reasons = reasons, !.flags = flags]
            /\ pc' = [pc EXCEPT ![t] = "qv_tail"]
    /\ UNCHANGED <<call, ops, mUsbDataEnabled, locks, mCallback, thrVars, mPartnerUp,
                   sockVars, recVars, hwVars, timeVars, conn, qidx, qstatus,
                   hist, aux>>

\* the step with the two usb_flags off
QvPost(t) == QvPostReading(t, ReasonTexts, {<<FALSE, FALSE>>})

\* the step with every text and every value of the two usb_flags
QvPostAll(t) == QvPostReading(t, AllReasonTexts, BOOLEAN \X BOOLEAN)

\* the process is gone once a thread has crashed
Crashed == \E t \in Threads : pc[t] = "crashed"
Running(S) == IF Crashed THEN {} ELSE S

\* a fault of queryVersionHelper: it returns with mLock still locked
QvTailKeepsLock(t) ==
    /\ pc[t] = "qv_tail"
    /\ pc' = [pc EXCEPT ![t] = RetLabel(t)]
    /\ IF t \in Workers
       THEN /\ wkPorts' = [wkPorts EXCEPT ![t] =
                             [i \in 1..Len(cps) |-> cps[i].portName]]
            /\ UNCHANGED aux
       ELSE /\ aux' = [aux EXCEPT ![t].recomputed = @ + 1,
                                  ![t].topo = trace.topo]
            /\ UNCHANGED wkPorts
    /\ cps' = <<>>
    /\ conn' = [p \in Ports |-> FALSE]
    /\ qidx' = 0
    /\ qstatus' = "none"
    /\ hist' = [p \in Ports |-> {}]
    /\ trace' = [NoTrace EXCEPT !.data = trace.data]
    /\ UNCHANGED <<call, ops, mUsbDataEnabled, locks, mCallback, thrVars,
                   mPartnerUp, sockVars, wkIdx, hwVars, timeVars>>

\* queryVersionHelper, lines 997-1005: notifyPortStatusChange(snapshot,
\* status) if there is a callback, and mLock is released.  The dispatch
\* thread keeps the port names of its vector for the loop of lines 1122-1132.
QvTail(t) ==
    /\ pc[t] = "qv_tail"
    /\ mLock' = NoThread
    /\ pc' = [pc EXCEPT ![t] = RetLabel(t)]
    /\ IF t \in Workers
       THEN /\ wkPorts' = [wkPorts EXCEPT ![t] =
                             [i \in 1..Len(cps) |-> cps[i].portName]]
            /\ UNCHANGED aux
       ELSE /\ aux' = [aux EXCEPT ![t].recomputed = @ + 1,
                                  ![t].topo = trace.topo]
            /\ UNCHANGED wkPorts
    /\ cps' = <<>>
    /\ conn' = [p \in Ports |-> FALSE]
    /\ qidx' = 0
    /\ qstatus' = "none"
    /\ hist' = [p \in Ports |-> {}]
    /\ trace' = [NoTrace EXCEPT !.data = trace.data]
    /\ UNCHANGED <<call, ops, mUsbDataEnabled, mRoleSwitchLock, mPartnerLock, mCallback, thrVars,
                   mPartnerUp, sockVars, wkIdx, hwVars, timeVars>>

\* what notifyPortStatusChange is about to hand over, and to whom
Delivering(t) == pc[t] = "qv_tail" /\ mCallback # NULL

\* Usb::queryPortStatus, line 1012
QpLock(c) ==
    /\ pc[c] = "qp_lock" /\ mLock = NoThread
    /\ mLock' = c
    /\ pc' = [pc EXCEPT ![c] = "qp_notify"]
    /\ UNCHANGED <<call, ops, mUsbDataEnabled, trace, mRoleSwitchLock, mPartnerLock, mCallback,
                   thrVars, mPartnerUp, sockVars, recVars, hwVars, timeVars,
                   snapVars, aux>>

\* a fault of queryPortStatus: the outcome follows the recomputation
QpNotifyResult(c) ==
    /\ pc[c] = "qp_notify"
    /\ aux' = SetAux(c, "note", IF mCallback = NULL THEN "dropped"
                                ELSE IF aux[c].topo = "ERROR" THEN "ERROR"
                                ELSE "SUCCESS")
    /\ mLock' = NoThread
    /\ pc' = [pc EXCEPT ![c] = "ret"]
    /\ UNCHANGED <<call, ops, mUsbDataEnabled, trace, mRoleSwitchLock, mPartnerLock, mCallback,
                   thrVars, mPartnerUp, sockVars, recVars, hwVars, timeVars,
                   snapVars>>

\* lines 1013-1021: notifyQueryPortStatus("all", SUCCESS, id)
QpNotify(c) ==
    /\ pc[c] = "qp_notify"
    /\ aux' = SetAux(c, "note", IF mCallback # NULL THEN "SUCCESS" ELSE "dropped")
    /\ mLock' = NoThread
    /\ pc' = [pc EXCEPT ![c] = "ret"]
    /\ UNCHANGED <<call, ops, mUsbDataEnabled, trace, mRoleSwitchLock, mPartnerLock, mCallback,
                   thrVars, mPartnerUp, sockVars, recVars, hwVars, timeVars,
                   snapVars>>


\* ------------------------------------------------------- uevent_event
\* line 1106: "partner added": pthread_mutex_lock(&mPartnerLock)
WkPartnerLock(w) ==
    /\ pc[w] = "wk_plock" /\ mPartnerLock = NoThread
    /\ mPartnerLock' = w
    /\ pc' = [pc EXCEPT ![w] = "wk_signal"]
    /\ UNCHANGED <<call, ops, mUsbDataEnabled, trace, mLock, mRoleSwitchLock, mCallback, thrVars,
                   mPartnerUp, sockVars, recVars, hwVars, timeVars, snapVars, aux>>

\* a fault of uevent_event: the condition is signalled and the flag not set
WkPartnerSignalNoFlag(w) ==
    /\ pc[w] = "wk_signal"
    /\ \/ \E c \in Callers :
            /\ pc[c] = "sm_wait"
            /\ pc' = [pc EXCEPT ![w] = NextField(Tail(msg[w])), ![c] = "sm_woken"]
            /\ err' = [err EXCEPT ![c] = "OK"]
       \/ /\ \A c \in Callers : pc[c] # "sm_wait"
          /\ pc' = [pc EXCEPT ![w] = NextField(Tail(msg[w]))]
          /\ UNCHANGED err
    /\ mPartnerLock' = NoThread
    /\ msg' = [msg EXCEPT ![w] = Tail(msg[w])]
    /\ UNCHANGED <<call, ops, mUsbDataEnabled, trace, mLock, mRoleSwitchLock, mCallback, thrVars,
                   mPartnerUp, sock, sockOpen, recVars, hwVars, now, deadline,
                   spurious, snapVars, aux>>

\* lines 1107-1109 and 1140-1142: the flag, pthread_cond_signal (one
\* waiter, if any, is woken with result 0), the unlock; then the next string
WkPartnerSignal(w) ==
    /\ pc[w] = "wk_signal"
    /\ mPartnerUp' = TRUE
    /\ \/ \E c \in Callers :
            /\ pc[c] = "sm_wait"
            /\ pc' = [pc EXCEPT ![w] = NextField(Tail(msg[w])), ![c] = "sm_woken"]
            /\ err' = [err EXCEPT ![c] = "OK"]
       \/ /\ \A c \in Callers : pc[c] # "sm_wait"
          /\ pc' = [pc EXCEPT ![w] = NextField(Tail(msg[w]))]
          /\ UNCHANGED err
    /\ mPartnerLock' = NoThread
    /\ msg' = [msg EXCEPT ![w] = Tail(msg[w])]
    /\ UNCHANGED <<call, ops, mUsbDataEnabled, trace, mLock, mRoleSwitchLock, mCallback, thrVars,
                   sock, sockOpen, recVars, hwVars, now, deadline, spurious,
                   snapVars, aux>>

\* switchToDrp, lines 405-422: "dual" to the port_type node of the port;
\* the node cannot be opened, or the write does not reach it, and only a log
\* line says so.  A port name that names no port has no node.
switchToDrp(portName, ok) ==
    IF ok /\ portName \in Ports
    THEN HwWrite(portName, appendRoleNodeHelper("mode"), "dual")
    ELSE UNCHANGED <<nodes, hist>>

\* lines 1133-1135: the unlock and the break: the rest of the message is
\* dropped and uevent_event returns
WkBreak(w) ==
    /\ msg' = [msg EXCEPT ![w] = <<>>]
    /\ wkPorts' = [wkPorts EXCEPT ![w] = <<>>]
    /\ wkIdx' = [wkIdx EXCEPT ![w] = 0]
    /\ pc' = [pc EXCEPT ![w] = "wk_loop"]

\* a fault of uevent_event: the result of the trylock is not looked at
WkTryLockIgnored(w) ==
    /\ pc[w] = "wk_try"
    /\ IF wkPorts[w] # <<>>
       THEN /\ mRoleSwitchLock' = IF mRoleSwitchLock = NoThread THEN w
                                  ELSE mRoleSwitchLock
            /\ wkIdx' = [wkIdx EXCEPT ![w] = 1]
            /\ pc' = [pc EXCEPT ![w] = "wk_rec"]
            /\ UNCHANGED <<msg, wkPorts>>
       ELSE /\ WkBreak(w)
            /\ UNCHANGED mRoleSwitchLock
    /\ UNCHANGED <<call, ops, mUsbDataEnabled, trace, mLock, mPartnerLock, mCallback,
                   thrVars, mPartnerUp, sock, sockOpen, hwVars, timeVars,
                   snapVars, aux>>

\* a fault of uevent_event: the role-switch section is taken to be busy
\* whatever pthread_mutex_trylock returned
WkTryLockBusy(w) ==
    /\ pc[w] = "wk_try"
    /\ WkBreak(w)
    /\ UNCHANGED <<call, ops, mUsbDataEnabled, trace, locks, mCallback, thrVars,
                   mPartnerUp, sock, sockOpen, hwVars, timeVars, snapVars, aux>>

\* line 1121: pthread_mutex_trylock(&mRoleSwitchLock) after
\* queryVersionHelper has returned; when the lock is busy, or the vector is
\* empty, there is nothing to do but the break of line 1135
WkTryLock(w) ==
    /\ pc[w] = "wk_try"
    /\ IF mRoleSwitchLock = NoThread /\ wkPorts[w] # <<>>
       THEN /\ mRoleSwitchLock' = w
            /\ wkIdx' = [wkIdx EXCEPT ![w] = 1]
            /\ pc' = [pc EXCEPT ![w] = "wk_rec"]
            /\ UNCHANGED <<msg, wkPorts>>
       ELSE /\ WkBreak(w)
            /\ UNCHANGED mRoleSwitchLock
    /\ UNCHANGED <<call, ops, mUsbDataEnabled, trace, mLock, mPartnerLock, mCallback, thrVars,
                   mPartnerUp, sock, sockOpen, hwVars, timeVars, snapVars, aux>>

\* lines 1122-1135: one port of the vector: without a partner directory the
\* port goes back to dual-role; after the last port the unlock and the break
WkReconcile(w) ==
    /\ pc[w] = "wk_rec"
    /\ LET name == wkPorts[w][wkIdx[w]]
       IN  IF name \notin Ports \/ partner[name] = Absent
           THEN \E ok \in BOOLEAN : switchToDrp(name, ok)
           ELSE UNCHANGED <<nodes, hist>>
    /\ IF wkIdx[w] = Len(wkPorts[w])
       THEN /\ mRoleSwitchLock' = NoThread
            /\ WkBreak(w)
       ELSE /\ wkIdx' = [wkIdx EXCEPT ![w] = @ + 1]
            /\ UNCHANGED <<mRoleSwitchLock, msg, wkPorts, pc>>
    /\ UNCHANGED <<call, ops, mUsbDataEnabled, trace, mLock, mPartnerLock, mCallback, thrVars, mPartnerUp,
                   sock, sockOpen, partner, events, timeVars, cps, conn, qidx,
                   qstatus, aux>>

\* lines 1136-1142: report_overheat_event reads statistics and uploads them;
\* any other string is skipped
WkFieldSkip(w) ==
    /\ pc[w] = "wk_skip"
    /\ msg' = [msg EXCEPT ![w] = Tail(msg[w])]
    /\ pc' = [pc EXCEPT ![w] = NextField(Tail(msg[w]))]
    /\ UNCHANGED <<call, ops, mUsbDataEnabled, trace, locks, mCallback, thrVars, mPartnerUp,
                   sock, sockOpen, recVars, hwVars, timeVars, snapVars, aux>>

\* ------------------------------------------------------ Usb::switchRole
\* What a fputs followed by fclose does to the node: "ok" reaches it, "lost"
\* is a fputs that returned no error whose data the kernel refused when the
\* stream was flushed (fclose is not checked), "eof" is fputs returning EOF.
WriteResults == {"ok", "lost", "eof"}

RoleWrite(c, res) ==
    IF res = "ok"
    THEN HwWrite(call[c].port, appendRoleNodeHelper(call[c].kind),
                 convertRoletoString(call[c].kind, call[c].val))
    ELSE UNCHANGED <<nodes, hist>>

\* a fault of switchRole: the role-switch lock is taken without waiting for it
SrLockUnguarded(c) ==
    /\ pc[c] = "sr_lock"
    /\ mRoleSwitchLock' = c
    /\ \E ok \in BOOLEAN :
         pc' = [pc EXCEPT ![c] =
                  IF call[c].kind = "mode"
                  THEN (IF ok THEN "sm_plock" ELSE "sm_drp")
                  ELSE (IF ok THEN "sr_write" ELSE "sr_mlock")]
    /\ UNCHANGED <<call, ops, mUsbDataEnabled, trace, mLock, mPartnerLock, mCallback, thrVars,
                   mPartnerUp, sockVars, recVars, hwVars, timeVars, snapVars, aux>>

\* line 623: pthread_mutex_lock(&mRoleSwitchLock); line 627 picks the path;
\* lines 630-631, 651-653 and 435-436: fopen of the node, which may fail
SrLock(c) ==
    /\ pc[c] = "sr_lock" /\ mRoleSwitchLock = NoThread
    /\ mRoleSwitchLock' = c
    /\ \E ok \in BOOLEAN :
         pc' = [pc EXCEPT ![c] =
                  IF call[c].kind = "mode"
                  THEN (IF ok THEN "sm_plock" ELSE "sm_drp")
                  ELSE (IF ok THEN "sr_write" ELSE "sr_mlock")]
    /\ UNCHANGED <<call, ops, mUsbDataEnabled, trace, mLock, mPartnerLock, mCallback, thrVars,
                   mPartnerUp, sockVars, recVars, hwVars, timeVars, snapVars, aux>>

\* lines 632-638: fputs; a result equal to EAGAIN goes to the retry, any
\* other result to fclose
SrWrite(c) ==
    /\ pc[c] = "sr_write"
    /\ \/ /\ pc' = [pc EXCEPT ![c] = "sr_retry"]
          /\ aux' = [aux EXCEPT ![c].writes = 1, ![c].wres = "EAGAIN"]
          /\ UNCHANGED <<nodes, hist>>
       \/ \E res \in WriteResults :
            /\ RoleWrite(c, res)
            /\ aux' = [aux EXCEPT ![c].writes = 1,
                                  ![c].wres = IF res = "eof" THEN "EOF" ELSE "sent"]
            /\ pc' = [pc EXCEPT ![c] = IF res = "eof" THEN "sr_mlock" ELSE "sr_read"]
    /\ UNCHANGED <<call, ops, mUsbDataEnabled, trace, locks, mCallback, thrVars,
                   mPartnerUp, sockVars, recVars, partner, events, timeVars, cps,
                   conn, qidx, qstatus>>

\* lines 634-638: after ROLE_SWAP_RETRY_MS the second fputs, then fclose
SrRetry(c) ==
    /\ pc[c] = "sr_retry"
    /\ \E res \in WriteResults :
         /\ RoleWrite(c, res)
         /\ aux' = [aux EXCEPT ![c].writes = 2,
                               ![c].wres = IF res = "eof" THEN "EOF" ELSE "sent"]
         /\ pc' = [pc EXCEPT ![c] = IF res = "eof" THEN "sr_mlock" ELSE "sr_read"]
    /\ UNCHANGED <<call, ops, mUsbDataEnabled, trace, locks, mCallback, thrVars,
                   mPartnerUp, sockVars, recVars, partner, events, timeVars, cps,
                   conn, qidx, qstatus>>

\* a fault of switchRole: a node that can be read counts as switched
SrReadBackNoCompare(c) ==
    /\ pc[c] = "sr_read"
    /\ \E readOk \in BOOLEAN : aux' = SetAux(c, "roleSwitch", readOk)
    /\ pc' = [pc EXCEPT ![c] = "sr_mlock"]
    /\ UNCHANGED <<call, ops, mUsbDataEnabled, trace, locks, mCallback, thrVars,
                   mPartnerUp, sockVars, recVars, hwVars, timeVars, snapVars>>

\* lines 639-650: the node is read back and compared with the string written
SrReadBack(c) ==
    /\ pc[c] = "sr_read"
    /\ \E readOk \in BOOLEAN :
         LET node    == appendRoleNodeHelper(call[c].kind)
             written == extractRole(ShowNode(node, nodes[call[c].port][node]))
         IN  aux' = SetAux(c, "roleSwitch",
                      readOk /\ written = <<convertRoletoString(call[c].kind,
                                                               call[c].val)>>)
    /\ pc' = [pc EXCEPT ![c] = "sr_mlock"]
    /\ UNCHANGED <<call, ops, mUsbDataEnabled, trace, locks, mCallback, thrVars, mPartnerUp, sockVars,
                   recVars, hwVars, timeVars, snapVars>>

\* a fault of switchRole: the notification does not wait for mLock
SrMLockNoWait(c) ==
    /\ pc[c] = "sr_mlock"
    /\ mLock' = IF mLock = NoThread THEN c ELSE mLock
    /\ pc' = [pc EXCEPT ![c] = "sr_notify"]
    /\ UNCHANGED <<call, ops, mUsbDataEnabled, trace, mRoleSwitchLock, mPartnerLock, mCallback,
                   thrVars, mPartnerUp, sockVars, recVars, hwVars, timeVars,
                   snapVars, aux>>

\* line 656: pthread_mutex_lock(&mLock)
SrMLock(c) ==
    /\ pc[c] = "sr_mlock" /\ mLock = NoThread
    /\ mLock' = c
    /\ pc' = [pc EXCEPT ![c] = "sr_notify"]
    /\ UNCHANGED <<call, ops, mUsbDataEnabled, trace, mRoleSwitchLock, mPartnerLock, mCallback,
                   thrVars, mPartnerUp, sockVars, recVars, hwVars, timeVars,
                   snapVars, aux>>

\* a fault of switchRole: the locks are released and nothing is notified
SrNotifySilent(c) ==
    /\ pc[c] = "sr_notify"
    /\ mLock' = NoThread
    /\ mRoleSwitchLock' = NoThread
    /\ pc' = [pc EXCEPT ![c] = "ret"]
    /\ UNCHANGED <<call, ops, mUsbDataEnabled, trace, mPartnerLock, mCallback, thrVars, mPartnerUp,
                   sockVars, recVars, hwVars, timeVars, snapVars, aux>>

\* lines 657-668: notifyRoleSwitchStatus with SUCCESS or ERROR, if there is
\* a callback; both locks are released and the call returns
SrNotify(c) ==
    /\ pc[c] = "sr_notify"
    /\ aux' = SetAux(c, "note",
                IF mCallback = NULL THEN "dropped"
                ELSE IF aux[c].roleSwitch THEN "SUCCESS" ELSE "ERROR")
    /\ mLock' = NoThread
    /\ mRoleSwitchLock' = NoThread
    /\ pc' = [pc EXCEPT ![c] = "ret"]
    /\ UNCHANGED <<call, ops, mUsbDataEnabled, trace, mPartnerLock, mCallback, thrVars, mPartnerUp,
                   sockVars, recVars, hwVars, timeVars, snapVars>>

\* ------------------------------------------------------------ switchMode
\* a fault of switchMode: the partner lock is taken and mPartnerUp is left as
\* an earlier attach has set it
SmPartnerLockKeepsFlag(c) ==
    /\ pc[c] = "sm_plock" /\ mPartnerLock = NoThread
    /\ mPartnerLock' = c
    /\ pc' = [pc EXCEPT ![c] = "sm_write"]
    /\ UNCHANGED <<call, ops, mUsbDataEnabled, trace, mLock, mRoleSwitchLock, mCallback, thrVars,
                   mPartnerUp, sockVars, recVars, hwVars, timeVars, snapVars, aux>>

\* lines 440-441: the partner lock is taken and the flag cleared
SmPartnerLock(c) ==
    /\ pc[c] = "sm_plock" /\ mPartnerLock = NoThread
    /\ mPartnerLock' = c
    /\ mPartnerUp' = FALSE
    /\ pc' = [pc EXCEPT ![c] = "sm_write"]
    /\ UNCHANGED <<call, ops, mUsbDataEnabled, trace, mLock, mRoleSwitchLock, mCallback, thrVars,
                   sockVars, recVars, hwVars, timeVars, snapVars, aux>>

\* the deadline handed to pthread_cond_timedwait at wait_again, lines
\* 449-452: the clock as it is read there plus PORT_TYPE_TIMEOUT
WaitDeadline(c) == now + PORT_TYPE_TIMEOUT

\* lines 449-454: wait_again: the deadline is set and
\* pthread_cond_timedwait releases the partner lock and blocks
WaitAgain(c) ==
    /\ deadline' = [deadline EXCEPT ![c] = WaitDeadline(c)]
    /\ mPartnerLock' = NoThread
    /\ pc' = [pc EXCEPT ![c] = "sm_wait"]

\* a fault of switchMode: the result of fputs is not looked at and the wait
\* is entered whatever it was
SmWriteAlwaysWaits(c) ==
    /\ pc[c] = "sm_write"
    /\ \E res \in WriteResults :
         /\ RoleWrite(c, res)
         /\ WaitAgain(c)
         /\ aux' = [aux EXCEPT ![c].waitStart = now, ![c].writes = 1,
                               ![c].wres = IF res = "eof" THEN "EOF" ELSE "sent"]
    /\ UNCHANGED <<call, ops, mUsbDataEnabled, trace, mLock, mRoleSwitchLock, mCallback, thrVars,
                   mPartnerUp, sockVars, recVars, partner, events, now, err,
                   spurious, cps, conn, qidx, qstatus>>

\* lines 442-454 and 465-468: fputs and fclose; EOF unlocks and gives up,
\* any other result enters the wait
SmWrite(c) ==
    /\ pc[c] = "sm_write"
    /\ \E res \in WriteResults :
         /\ RoleWrite(c, res)
         /\ IF res = "eof"
            THEN /\ mPartnerLock' = NoThread
                 /\ pc' = [pc EXCEPT ![c] = "sm_drp"]
                 /\ aux' = [aux EXCEPT ![c].writes = 1, ![c].wres = "EOF"]
                 /\ UNCHANGED deadline
            ELSE /\ WaitAgain(c)
                 /\ aux' = [aux EXCEPT ![c].waitStart = now, ![c].writes = 1,
                                       ![c].wres = "sent"]
    /\ UNCHANGED <<call, ops, mUsbDataEnabled, trace, mLock, mRoleSwitchLock, mCallback, thrVars,
                   mPartnerUp, sockVars, recVars, partner, events, now, err,
                   spurious, cps, conn, qidx, qstatus>>

\* pthread_cond_timedwait ends with ETIMEDOUT once the deadline is reached
SmTimeout(c) ==
    /\ pc[c] = "sm_wait" /\ now >= deadline[c]
    /\ err' = [err EXCEPT ![c] = "ETIMEDOUT"]
    /\ pc' = [pc EXCEPT ![c] = "sm_woken"]
    /\ UNCHANGED <<call, ops, mUsbDataEnabled, trace, locks, mCallback, thrVars, mPartnerUp, sockVars,
                   recVars, hwVars, now, deadline, spurious, snapVars, aux>>

\* pthread_cond_timedwait may end with 0 though nobody signalled
SmSpurious(c) ==
    /\ pc[c] = "sm_wait" /\ spurious < MaxSpurious
    /\ spurious' = spurious + 1
    /\ err' = [err EXCEPT ![c] = "OK"]
    /\ pc' = [pc EXCEPT ![c] = "sm_woken"]
    /\ UNCHANGED <<call, ops, mUsbDataEnabled, trace, locks, mCallback, thrVars, mPartnerUp, sockVars,
                   recVars, hwVars, now, deadline, snapVars, aux>>

\* the wait is over: no deadline is pending, and the origin of the clock
\* moves to the present (only differences of clock readings are used, and
\* mRoleSwitchLock admits one waiter at a time)
WaitOver(c) ==
    /\ deadline' = [deadline EXCEPT ![c] = 0]
    /\ now' = 0
    /\ UNCHANGED mPartnerLock

\* a fault of switchMode: a time-out leaves the wait like a failure that
\* needs no recovery
SmWokenNoRecovery(c) ==
    /\ pc[c] = "sm_woken" /\ mPartnerLock = NoThread
    /\ IF err[c] = "ETIMEDOUT"
       THEN /\ aux' = [aux EXCEPT ![c].timedOut = TRUE, ![c].waitStart = -1]
            /\ pc' = [pc EXCEPT ![c] = "sr_mlock"]
            /\ WaitOver(c)
       ELSE IF ~mPartnerUp
       THEN /\ WaitAgain(c)
            /\ UNCHANGED <<aux, now>>
       ELSE /\ aux' = [aux EXCEPT ![c].roleSwitch = TRUE, ![c].waitStart = -1]
            /\ pc' = [pc EXCEPT ![c] = "sr_mlock"]
            /\ WaitOver(c)
    /\ err' = [err EXCEPT ![c] = "none"]
    /\ UNCHANGED <<call, ops, mUsbDataEnabled, trace, mLock, mRoleSwitchLock, mCallback, thrVars,
                   mPartnerUp, sockVars, recVars, hwVars, spurious, snapVars>>

\* lines 454-468: the wait returns holding the partner lock again: a
\* time-out fails, a wake-up with the flag still false goes to wait_again, a
\* wake-up with the flag set succeeds; the lock is released
SmWoken(c) ==
    /\ pc[c] = "sm_woken" /\ mPartnerLock = NoThread
    /\ IF err[c] = "ETIMEDOUT"
       THEN /\ aux' = [aux EXCEPT ![c].timedOut = TRUE, ![c].waitStart = -1]
            /\ pc' = [pc EXCEPT ![c] = "sm_drp"]
            /\ WaitOver(c)
       ELSE IF ~mPartnerUp
       THEN /\ WaitAgain(c)
            /\ UNCHANGED <<aux, now>>
       ELSE /\ aux' = [aux EXCEPT ![c].roleSwitch = TRUE, ![c].waitStart = -1]
            /\ pc' = [pc EXCEPT ![c] = "sr_mlock"]
            /\ WaitOver(c)
    /\ err' = [err EXCEPT ![c] = "none"]
    /\ UNCHANGED <<call, ops, mUsbDataEnabled, trace, mLock, mRoleSwitchLock, mCallback, thrVars,
                   mPartnerUp, sockVars, recVars, hwVars, spurious, snapVars>>

\* a fault of switchMode: the failure path returns without switchToDrp
SmFallbackSkipped(c) ==
    /\ pc[c] = "sm_drp"
    /\ pc' = [pc EXCEPT ![c] = "sr_mlock"]
    /\ UNCHANGED <<call, ops, mUsbDataEnabled, trace, locks, mCallback, thrVars, mPartnerUp, sockVars,
                   recVars, hwVars, timeVars, snapVars, aux>>

\* lines 471-474: without success the port goes back to dual-role
SmFallback(c) ==
    /\ pc[c] = "sm_drp"
    /\ \E ok \in BOOLEAN :
         /\ switchToDrp(call[c].port, ok)
         /\ aux' = SetAux(c, "drp", IF ok THEN "ok" ELSE "fail")
    /\ pc' = [pc EXCEPT ![c] = "sr_mlock"]
    /\ UNCHANGED <<call, ops, mUsbDataEnabled, trace, locks, mCallback, thrVars, mPartnerUp, sockVars,
                   recVars, partner, events, timeVars, cps, conn, qidx, qstatus>>

\* the monotonic clock advances while a thread is inside the timed wait; a
\* wait whose deadline is reached ends before the clock moves on
Tick ==
    /\ \E c \in Callers : pc[c] = "sm_wait"
    /\ \A c \in Callers : pc[c] = "sm_wait" => now < deadline[c]
    /\ now' = now + 1
    /\ UNCHANGED <<pc, call, ops, mUsbDataEnabled, trace, locks, mCallback, thrVars, mPartnerUp,
                   sockVars, recVars, hwVars, deadline, err, spurious, snapVars,
                   aux>>

\* ------------------------------------------------------------ the system
Next ==
    \/ \E c \in Running(Callers) : CallSwitchRole(c)
    \/ \E c \in Running(Callers) : CallQueryPortStatus(c)
    \/ \E c \in Running(Callers) : CallSetCallback(c)
    \/ \E c \in Running(Callers) : Return(c)
    \/ \E c \in Running(Callers) : ScSame(c)
    \/ \E c \in Running(Callers) : ScChange(c)
    \/ \E c \in Running(Callers) : ScKill(c)
    \/ \E c \in Running(Callers) : ScJoin(c)
    \/ \E c \in Running(Callers) : ScCreate(c)
    \/ \E w \in Running(Workers) : WkStart(w)
    \/ \E w \in Running(Workers) : WkLoop(w)
    \/ \E w \in Running(Workers) : WkEpoll(w)
    \/ \E w \in Running(Workers) : WkRecv(w)
    \/ \E w \in Running(Workers) : HandleSignal(w)
    \/ \E w \in Running(Workers) : WkPartnerLock(w)
    \/ \E w \in Running(Workers) : WkPartnerSignal(w)
    \/ \E w \in Running(Workers) : WkTryLock(w)
    \/ \E w \in Running(Workers) : WkReconcile(w)
    \/ \E w \in Running(Workers) : WkFieldSkip(w)
    \/ \E t \in Running(Threads) : QvLock(t)
    \/ \E t \in Running(Threads) : QvPower(t)
    \/ \E t \in Running(Threads) : QvData(t)
    \/ \E t \in Running(Threads) : QvMode(t)
    \/ \E t \in Running(Threads) : QvPost(t)
    \/ \E t \in Running(Threads) : QvTail(t)
    \/ \E c \in Running(Callers) : QpLock(c)
    \/ \E c \in Running(Callers) : QpNotify(c)
    \/ \E c \in Running(Callers) : SrLock(c)
    \/ \E c \in Running(Callers) : SrWrite(c)
    \/ \E c \in Running(Callers) : SrRetry(c)
    \/ \E c \in Running(Callers) : SrReadBack(c)
    \/ \E c \in Running(Callers) : SrMLock(c)
    \/ \E c \in Running(Callers) : SrNotify(c)
    \/ \E c \in Running(Callers) : SmPartnerLock(c)
    \/ \E c \in Running(Callers) : SmWrite(c)
    \/ \E c \in Running(Callers) : SmTimeout(c)
    \/ \E c \in Running(Callers) : SmSpurious(c)
    \/ \E c \in Running(Callers) : SmWoken(c)
    \/ \E c \in Running(Callers) : SmFallback(c)
    \/ \E p \in Running(Ports) : PartnerAttach(p)
    \/ \E p \in Running(Ports) : PartnerDetach(p)
    \/ ~Crashed /\ Tick

Spec == Init /\ [][Next]_vars

\* ------------------------------------------- the data and power operations
\* The operations on USB data and power transfer, called once the framework
\* has (or has not) registered its callback, while switchRole is not called
\* and the kernel sends no uevent: the dispatch thread, if there is one, stays
\* in epoll_wait.  A partner may have been attached before.  ops counts the
\* calls issued from here on.
OpsInit ==
    /\ call = [c \in Callers |-> NoCall]
    /\ ops = 0
    /\ mLock = NoThread
    /\ mRoleSwitchLock = NoThread
    /\ mPartnerLock = NoThread
    /\ destroyThread = FALSE
    /\ mUsbDataEnabled = TRUE
    /\ trace = NoTrace
    /\ sigPending = {}
    /\ sock = [w \in Workers |-> <<>>]
    /\ msg = [w \in Workers |-> <<>>]
    /\ wkPorts = [w \in Workers |-> <<>>]
    /\ wkIdx = [w \in Workers |-> 0]
    /\ nodes = [p \in Ports |-> [power_role |-> "sink", data_role |-> "device",
                                 port_type |-> "dual"]]
    /\ now = 0
    /\ deadline = [c \in Callers |-> 0]
    /\ err = [c \in Callers |-> "none"]
    /\ spurious = 0
    /\ cps = <<>>
    /\ conn = [p \in Ports |-> FALSE]
    /\ qidx = 0
    /\ qstatus = "none"
    /\ hist = [p \in Ports |-> {}]
    /\ aux = [c \in Callers |-> NoAux]
    /\ \/ /\ mCallback = NULL
          /\ mPoll = NoThread
          /\ created = 0
          /\ pc = [t \in Threads |-> IF t \in Callers THEN "idle" ELSE "unborn"]
          /\ sockOpen = [w \in Workers |-> FALSE]
          /\ partner = [p \in Ports |-> Absent]
          /\ events = 0
          /\ mPartnerUp = FALSE
       \/ /\ mCallback = "cb1"
          /\ mPoll = 1
          /\ created = 1
          /\ pc = [t \in Threads |-> IF t \in Callers THEN "idle"
                                     ELSE IF t = 1 THEN "wk_blocked" ELSE "unborn"]
          /\ sockOpen = [w \in Workers |-> w = 1]
          /\ \/ /\ partner = [p \in Ports |-> Absent]
                /\ events = 0
                /\ mPartnerUp = FALSE
             \/ /\ partner = [p \in Ports |-> "none"]
                /\ events = 1
                /\ mPartnerUp = TRUE

OpsNext ==
    \/ \E c \in Running(Callers) : CallQueryPortStatus(c)
    \/ \E c \in Running(Callers) : CallEnableUsbData(c)
    \/ \E c \in Running(Callers) : CallEnableUsbDataWhileDocked(c)
    \/ \E c \in Running(Callers) : CallResetUsbPort(c)
    \/ \E c \in Running(Callers) : CallEnableContaminantPresenceDetection(c)
    \/ \E c \in Running(Callers) : CallLimitPowerTransfer(c)
    \/ \E c \in Running(Callers) : EuStore(c)
    \/ \E c \in Running(Callers) : OpLock(c)
    \/ \E c \in Running(Callers) : OpNotify(c)
    \/ \E c \in Running(Callers) : LpLock(c)
    \/ \E c \in Running(Callers) : LpWrite(c)
    \/ \E c \in Running(Callers) : QvLock(c)
    \/ \E c \in Running(Callers) : QvPower(c)
    \/ \E c \in Running(Callers) : QvData(c)
    \/ \E c \in Running(Callers) : QvMode(c)
    \/ \E c \in Running(Callers) : QvPost(c)
    \/ \E c \in Running(Callers) : QvTail(c)
    \/ \E c \in Running(Callers) : QpLock(c)
    \/ \E c \in Running(Callers) : QpNotify(c)
    \/ \E c \in Running(Callers) : Return(c)

OpsSpec == OpsInit /\ [][OpsNext]_vars

\* ------------------------------------------- the snapshot and its files
\* queryPortStatus alone, over what the status computation reads: the port
\* with or without a partner, as source or as sink, with or without a
\* callback, and every text of supports_usb_power_delivery, usb_type and
\* non_compliant_reasons with every value of the two usb_flags.
SnapInit ==
    /\ call = [c \in Callers |-> NoCall]
    /\ ops = 0
    /\ mLock = NoThread
    /\ mRoleSwitchLock = NoThread
    /\ mPartnerLock = NoThread
    /\ destroyThread = FALSE
    /\ mUsbDataEnabled = TRUE
    /\ trace = NoTrace
    /\ sigPending = {}
    /\ sock = [w \in Workers |-> <<>>]
    /\ msg = [w \in Workers |-> <<>>]
    /\ wkPorts = [w \in Workers |-> <<>>]
    /\ wkIdx = [w \in Workers |-> 0]
    /\ \E role \in {[power_role |-> "sink", data_role |-> "device"],
                     [power_role |-> "source", data_role |-> "host"]} :
         nodes = [p \in Ports |-> [power_role |-> role.power_role,
                                   data_role |-> role.data_role,
                                   port_type |-> "dual"]]
    /\ now = 0
    /\ deadline = [c \in Callers |-> 0]
    /\ err = [c \in Callers |-> "none"]
    /\ spurious = 0
    /\ cps = <<>>
    /\ conn = [p \in Ports |-> FALSE]
    /\ qidx = 0
    /\ qstatus = "none"
    /\ hist = [p \in Ports |-> {}]
    /\ aux = [c \in Callers |-> NoAux]
    /\ \/ /\ mCallback = NULL
          /\ mPoll = NoThread
          /\ created = 0
          /\ pc = [t \in Threads |-> IF t \in Callers THEN "idle" ELSE "unborn"]
          /\ sockOpen = [w \in Workers |-> FALSE]
       \/ /\ mCallback = "cb1"
          /\ mPoll = 1
          /\ created = 1
          /\ pc = [t \in Threads |-> IF t \in Callers THEN "idle"
                                     ELSE IF t = 1 THEN "wk_blocked" ELSE "unborn"]
          /\ sockOpen = [w \in Workers |-> w = 1]
    /\ \/ /\ partner = [p \in Ports |-> Absent]
          /\ events = 0
          /\ mPartnerUp = FALSE
       \/ /\ partner = [p \in Ports |-> "none"]
          /\ events = 1
          /\ mPartnerUp = (mCallback # NULL)

SnapNext ==
    \/ \E c \in Running(Callers) : CallQueryPortStatus(c)
    \/ \E c \in Running(Callers) : QvLock(c)
    \/ \E c \in Running(Callers) : QvPower(c)
    \/ \E c \in Running(Callers) : QvData(c)
    \/ \E c \in Running(Callers) : QvModeAll(c)
    \/ \E c \in Running(Callers) : QvPostAll(c)
    \/ \E c \in Running(Callers) : QvTail(c)
    \/ \E c \in Running(Callers) : QpLock(c)
    \/ \E c \in Running(Callers) : QpNotify(c)
    \/ \E c \in Running(Callers) : Return(c)

SnapSpec == SnapInit /\ [][SnapNext]_vars

\* ------------------------------------------------- without a subscriber
\* The binder calls with mCallback NULL: no callback was ever set, no thread
\* created and no partner attached, or a callback was set and cleared again,
\* the dispatch thread of that time has ended and a partner is attached.
\* The partner stays as it is.
QuietInit ==
    /\ pc = [t \in Threads |-> IF t \in Callers THEN "idle" ELSE "unborn"]
          \/ pc = [t \in Threads |-> IF t \in Callers THEN "idle"
                                     ELSE IF t = 1 THEN "wk_dead" ELSE "unborn"]
    /\ created = IF pc[1] = "wk_dead" THEN 1 ELSE 0
    /\ mPoll = IF pc[1] = "wk_dead" THEN 1 ELSE NoThread
    /\ call = [c \in Callers |-> NoCall]
    /\ ops = 0
    /\ mLock = NoThread
    /\ mRoleSwitchLock = NoThread
    /\ mPartnerLock = NoThread
    /\ mCallback = NULL
    /\ destroyThread = FALSE
    /\ mPartnerUp = FALSE
    /\ mUsbDataEnabled = TRUE
    /\ trace = NoTrace
    /\ sigPending = {}
    /\ sock = [w \in Workers |-> <<>>]
    /\ sockOpen = [w \in Workers |-> FALSE]
    /\ msg = [w \in Workers |-> <<>>]
    /\ wkPorts = [w \in Workers |-> <<>>]
    /\ wkIdx = [w \in Workers |-> 0]
    /\ nodes = [p \in Ports |-> [power_role |-> "sink", data_role |-> "device",
                                 port_type |-> "dual"]]
    /\ partner = [p \in Ports |-> IF pc[1] = "wk_dead" THEN "none" ELSE Absent]
    /\ events = IF pc[1] = "wk_dead" THEN 1 ELSE 0
    /\ now = 0
    /\ deadline = [c \in Callers |-> 0]
    /\ err = [c \in Callers |-> "none"]
    /\ spurious = 0
    /\ cps = <<>>
    /\ conn = [p \in Ports |-> FALSE]
    /\ qidx = 0
    /\ qstatus = "none"
    /\ hist = [p \in Ports |-> {}]
    /\ aux = [c \in Callers |-> NoAux]

QuietNext ==
    \/ \E c \in Running(Callers) : CallSwitchRole(c)
    \/ \E c \in Running(Callers) : CallQueryPortStatus(c)
    \/ \E c \in Running(Callers) : CallEnableUsbData(c)
    \/ \E c \in Running(Callers) : CallLimitPowerTransfer(c)
    \/ \E c \in Running(Callers) : EuStore(c)
    \/ \E c \in Running(Callers) : OpLock(c)
    \/ \E c \in Running(Callers) : OpNotify(c)
    \/ \E c \in Running(Callers) : LpLock(c)
    \/ \E c \in Running(Callers) : LpWrite(c)
    \/ \E c \in Running(Callers) : QvLock(c)
    \/ \E c \in Running(Callers) : QvPower(c)
    \/ \E c \in Running(Callers) : QvData(c)
    \/ \E c \in Running(Callers) : QvMode(c)
    \/ \E c \in Running(Callers) : QvPost(c)
    \/ \E c \in Running(Callers) : QvTail(c)
    \/ \E c \in Running(Callers) : QpLock(c)
    \/ \E c \in Running(Callers) : QpNotify(c)
    \/ \E c \in Running(Callers) : SrLock(c)
    \/ \E c \in Running(Callers) : SrWrite(c)
    \/ \E c \in Running(Callers) : SrRetry(c)
    \/ \E c \in Running(Callers) : SrReadBack(c)
    \/ \E c \in Running(Callers) : SrMLock(c)
    \/ \E c \in Running(Callers) : SrNotify(c)
    \/ \E c \in Running(Callers) : SmPartnerLock(c)
    \/ \E c \in Running(Callers) : SmWrite(c)
    \/ \E c \in Running(Callers) : SmTimeout(c)
    \/ \E c \in Running(Callers) : SmSpurious(c)
    \/ \E c \in Running(Callers) : SmWoken(c)
    \/ \E c \in Running(Callers) : SmFallback(c)
    \/ \E c \in Running(Callers) : Return(c)
    \/ ~Crashed /\ Tick

QuietSpec == QuietInit /\ [][QuietNext]_vars


\* ================================================================ claims
\* between pthread_mutex_lock(&mRoleSwitchLock), line 623, and its unlock,
\* line 666: the write, the read-back or the partner wait, the fallback and
\* the notification
InSwitchSection(c) ==
    pc[c] \in {"sr_write", "sr_retry", "sr_read", "sr_mlock", "sr_notify",
               "sm_plock", "sm_write", "sm_wait", "sm_woken", "sm_drp"}

SwitchCall(c) == call[c].op = "switchRole"
ModeCall(c)   == SwitchCall(c) /\ call[c].kind = "mode"

C2_TimeoutFallsBack ==
    \A c \in Callers :
        ModeCall(c) /\ aux[c].timedOut =>
            /\ ~aux[c].roleSwitch
            /\ pc[c] \in {"sm_drp", "sr_mlock", "sr_notify", "ret"}
            /\ pc[c] # "sm_drp" => aux[c].drp # "no"
            /\ pc[c] \in {"sr_mlock", "sr_notify"} /\ aux[c].drp = "ok" =>
                 /\ nodes[call[c].port].port_type = "dual"
                 /\ [nodes EXCEPT ![call[c].port].port_type = "dual"] = nodes
            /\ pc[c] = "ret" => aux[c].note \in {"ERROR", "dropped"}

C2_Witness ==
    \E c \in Callers :
        /\ ModeCall(c) /\ aux[c].timedOut
        /\ pc[c] = "ret" /\ aux[c].note = "ERROR" /\ aux[c].drp = "ok"

\* C3: the partner wait is a hard deadline: at no moment of the wait has
\* more than PORT_TYPE_TIMEOUT passed since the first pthread_cond_timedwait.
C3_HardDeadline ==
    \A c \in Callers :
        pc[c] \in {"sm_wait", "sm_woken"} =>
            now - aux[c].waitStart <= PORT_TYPE_TIMEOUT

\* C4, as the specification states it: a switchRole call of any kind that
\* ends with ERROR has run the fallback write.
C4_AnyErrorFallsBack ==
    \A c \in Callers :
        pc[c] = "ret" /\ SwitchCall(c) /\ ~aux[c].roleSwitch => aux[c].drp # "no"

\* C4, amended: a switchRole call that ends with ERROR has run the fallback
\* write exactly when it is a mode switch; a failed power-role or data-role
\* switch writes nothing to the mode node.
C4_OnlyModeErrorFallsBack ==
    \A c \in Callers :
        pc[c] = "ret" /\ SwitchCall(c) /\ ~aux[c].roleSwitch =>
            (call[c].kind = "mode" <=> aux[c].drp # "no")

C4_Witness ==
    \E c \in Callers :
        /\ pc[c] = "ret" /\ SwitchCall(c) /\ call[c].kind = "dataRole"
        /\ aux[c].note = "ERROR" /\ aux[c].drp = "no"

SnapshotOf(h, part, connected, name) ==
    [portName         |-> name,
     currentPowerRole |-> getCurrentRoleHelper(h, part, connected, "powerRole").val,
     currentDataRole  |-> getCurrentRoleHelper(h, part, connected, "dataRole").val,
     currentMode      |-> getCurrentRoleHelper(h, part, connected, "mode").val]

\* the name and the three roles of an element of the vector
RolesOf(st) ==
    [portName         |-> st.portName,
     currentPowerRole |-> st.currentPowerRole,
     currentDataRole  |-> st.currentDataRole,
     currentMode      |-> st.currentMode]

\* C6: every connected port of a snapshot about to be delivered shows the
\* power role, the data role and the mode of one single state its nodes went
\* through while the snapshot was computed.
C6_SnapshotAtomic ==
    \A t \in Threads :
        Delivering(t) /\ qstatus = "SUCCESS" =>
            \A i \in 1..Len(cps) :
                conn[cps[i].portName] =>
                    \E h \in hist[cps[i].portName], part \in PartnerKinds :
                        RolesOf(cps[i]) = SnapshotOf(h, part, TRUE,
                                                     cps[i].portName)

\* C7: when setCallback(NULL) leaves its stopping branch no dispatch thread
\* runs, and the thread the signal reached has been joined; and no state
\* shows a null callback with mLock free while a dispatch thread runs.
C7_StoppedBeforeReturn ==
    [][ /\ \A c \in Callers :
             pc[c] \in {"sc_kill", "sc_join"} /\ pc'[c] = "ret" =>
                 /\ \A w \in Workers : ~Alive(w)
                 /\ \A w \in Workers : pc'[w] \in {"unborn", "wk_dead", "wk_joined"}
                 /\ aux'[c].path = "joined" => pc'[mPoll] = "wk_joined"
        /\ mCallback' = NULL /\ mLock' = NoThread =>
             \A w \in Workers : pc'[w] \in {"unborn", "wk_dead", "wk_joined"}
      ]_vars

\* a clearing call has returned from pthread_join: the thread it signalled
\* had received a message before
C7_Witness ==
    \E c \in Callers :
        /\ pc[c] = "ret" /\ call[c].op = "setCallback" /\ call[c].cb = NULL
        /\ aux[c].path = "joined"
        /\ mCallback = NULL /\ pc[mPoll] = "wk_joined"
        /\ events > 0

C9_SameStateOnlyStores ==
    [][ \A c \in Callers :
            /\ pc[c] = "sc_lock" /\ pc'[c] # "sc_lock"
            /\ (mCallback = NULL) = (call[c].cb = NULL)
            => /\ pc'[c] = "ret"
               /\ mCallback' = call[c].cb
               /\ UNCHANGED <<mPoll, destroyThread, sigPending, created, locks>>
               /\ \A w \in Workers : pc'[w] = pc[w]
      ]_vars

\* a handle has replaced another while the dispatch thread runs
C9_Witness ==
    \E c \in Callers :
        /\ pc[c] = "ret" /\ aux[c].path = "same"
        /\ call[c].cb # NULL /\ mCallback = call[c].cb
        /\ Alive(mPoll)

C18_RoleWriteReadBack ==
    \A c \in Callers :
        SwitchCall(c) /\ call[c].kind # "mode" =>
            LET node == appendRoleNodeHelper(call[c].kind)
                want == convertRoletoString(call[c].kind, call[c].val)
            IN  /\ aux[c].writes <= 2
                /\ aux[c].writes = 2 => pc[c] # "sr_write"
                /\ pc[c] \in {"sr_mlock", "sr_notify"} =>
                     /\ aux[c].roleSwitch =>
                          aux[c].wres = "sent" /\ nodes[call[c].port][node] = want
                     /\ aux[c].wres = "EOF" => ~aux[c].roleSwitch
                /\ pc[c] = "ret" =>
                     /\ aux[c].note = "SUCCESS" => aux[c].roleSwitch /\ aux[c].wres = "sent"
                     /\ aux[c].note = "ERROR" => ~aux[c].roleSwitch

\* a switch has written twice, read the requested value back and told the
\* callback SUCCESS
C18_Witness ==
    \E c \in Callers :
        /\ SwitchCall(c) /\ call[c].kind = "powerRole"
        /\ pc[c] = "ret" /\ aux[c].writes = 2 /\ aux[c].note = "SUCCESS"


\* C11: the dispatch thread comes out of the trylock either as the owner of
\* mRoleSwitchLock, and then no switchRole call is inside the role-switch
\* section, or, when the lock was busy, straight back at its loop with the
\* lock, the nodes and the waiting callers untouched; a node is written only
\* by the owner of mRoleSwitchLock, so no switchRole write begins while the
\* reconciliation runs.
C11_ReconcileOnlyWhenFree ==
    [][ /\ \A w \in Workers :
             pc[w] = "wk_try" /\ pc'[w] # "wk_try" =>
                 IF mRoleSwitchLock # NoThread
                 THEN /\ pc'[w] = "wk_loop"
                      /\ UNCHANGED <<mRoleSwitchLock, nodes>>
                 ELSE pc'[w] = "wk_rec" =>
                          /\ mRoleSwitchLock' = w
                          /\ \A c \in Callers : ~InSwitchSection(c)
        /\ \A w \in Workers :
             pc[w] = "wk_rec" =>
                 /\ \A c \in Callers : ~InSwitchSection(c) /\ pc'[c] # "sr_write"
                 /\ nodes' # nodes => pc'[w] # pc[w] \/ wkIdx'[w] # wkIdx[w]
        /\ nodes' # nodes => mRoleSwitchLock # NoThread
      ]_vars

\* the reconciliation runs while a switchRole call waits for the lock
C11_Witness ==
    \E w \in Workers, c \in Callers :
        pc[w] = "wk_rec" /\ pc[c] = "sr_lock"

\* the trylock is about to find the lock busy: a switch holds it and waits
\* for its partner while the thread has a snapshot to reconcile
C11_SkipWitness ==
    \E w \in Workers, c \in Callers :
        /\ pc[w] = "wk_try" /\ wkPorts[w] # <<>>
        /\ pc[c] = "sm_wait" /\ mRoleSwitchLock = c


\* C13: once getTypeCPortNamesHelper has failed, the thread goes on to the
\* delivery with an empty vector and the result ERROR.
C13_TopologyFailureDelivered ==
    \A t \in Threads :
        mLock = t /\ trace.topo = "ERROR" /\ pc[t] # "qv_post" =>
            pc[t] = "qv_tail" /\ cps = <<>> /\ qstatus = "ERROR"

\* the case C13 is about, when the element-0 writes go unnoticed
C13_Witness ==
    \E t \in Threads :
        Delivering(t) /\ trace.topo = "ERROR" /\ cps = <<>> /\ qstatus = "ERROR"

C15_DisconnectedHasNoRoles ==
    \A t \in Threads :
        Delivering(t) =>
            \A i \in 1..Len(cps) :
                cps[i].portName = "" \/ ~conn[cps[i].portName] =>
                    \/ /\ cps[i].currentPowerRole = "NONE"
                       /\ cps[i].currentDataRole = "NONE"
                    \/ /\ cps[i].complianceWarnings # <<>>
                       /\ cps[i].currentPowerRole = "SINK"
                       /\ cps[i].currentMode = "UFP"
                       /\ cps[i].currentDataRole = "NONE"

\* both cases are delivered: the made-up sink state of a port without a
\* partner is about to be handed over
C15_Witness ==
    \E t \in Threads :
        /\ Delivering(t) /\ qstatus = "SUCCESS"
        /\ \E i \in 1..Len(cps) :
             /\ ~conn[cps[i].portName]
             /\ cps[i].currentPowerRole = "SINK"
             /\ cps[i].complianceWarnings = <<"BC_1_2">>

C15_PlainWitness ==
    \E t \in Threads :
        /\ Delivering(t) /\ qstatus = "SUCCESS"
        /\ \E i \in 1..Len(cps) :
             /\ ~conn[cps[i].portName]
             /\ cps[i].currentPowerRole = "NONE"
             /\ partner[cps[i].portName] # Absent

Outcomes == {"SUCCESS", "ERROR", "NOT_SUPPORTED"}

\* C12: a call that came in while a callback was registered, and returns
\* while one is, has handed its outcome to the callback.
C12_EveryCallNotifies ==
    \A c \in Callers :
        pc[c] = "ret" /\ call[c].sub /\ mCallback # NULL
        /\ call[c].op # "setCallback" =>
            aux[c].note \in Outcomes

\* the thread is inside the section mLock guards: it computes or delivers a
\* snapshot, hands over an outcome, or is inside setCallback
InStatusSection(t) ==
    pc[t] \in {"qv_power", "qv_data", "qv_mode", "qv_post", "qv_tail",
               "qp_notify", "sr_notify", "op_notify", "lp_write",
               "sc_kill", "sc_join", "sc_create"}

C17_EnableUsbDataOutcome ==
    \A c \in Callers :
        call[c].op = "enableUsbData" =>
            /\ (aux[c].result = "ERROR") = aux[c].failed
            /\ (aux[c].result = "SUCCESS") = ~aux[c].failed
            /\ pc[c] \in {"eu_store", "op_lock", "op_notify"} =>
                 aux[c].note = "none" /\ aux[c].recomputed = 0
            /\ pc[c] \in {"qv_lock", "qv_power", "qv_data", "qv_mode",
                          "qv_post", "qv_tail"} =>
                 aux[c].note # "none" /\ aux[c].recomputed = 0
            /\ pc[c] = "ret" => aux[c].recomputed = 1
            /\ aux[c].note \in {"none", "dropped", aux[c].result}
            /\ aux[c].note = "dropped" => mCallback = NULL

\* a disable with the gadget pulled up, four writes attempted, one failed:
\* ERROR was handed over and the call is back after its recomputation
C17_Witness ==
    \E c \in Callers :
        /\ call[c].op = "enableUsbData" /\ ~call[c].enable /\ pc[c] = "ret"
        /\ aux[c].writes = 4 /\ aux[c].failed
        /\ aux[c].note = "ERROR" /\ aux[c].recomputed = 1

\* C20: a thread that computes or delivers a snapshot, hands over an
\* outcome or is inside setCallback owns mLock, so there is one such thread
\* at most; an outcome is recorded as handed over, and mCallback changes,
\* only in a step of the thread that owns mLock or takes it in that step.
C20_StatusSectionExclusive ==
    [][ /\ \A t \in Threads : InStatusSection(t) => mLock = t
        /\ \A t \in Threads : InStatusSection(t)' => mLock' = t
        /\ \A t, u \in Threads :
             InStatusSection(t) /\ InStatusSection(u) => t = u
        /\ \A c \in Callers :
             aux'[c].note \notin {aux[c].note, "none"} => mLock = c
        /\ mCallback' # mCallback =>
             \E c \in Callers :
                 /\ pc'[c] # pc[c]
                 /\ \/ mLock = c
                    \/ mLock = NoThread /\ mLock' \in {c, NoThread}
      ]_vars

\* a thread is about to deliver its snapshot while another waits for mLock
\* to hand over the outcome of its role switch
C20_Witness ==
    \E t, u \in Threads :
        /\ t # u
        /\ pc[t] = "qv_tail" /\ mLock = t /\ mCallback # NULL
        /\ pc[u] = "sr_mlock"

\* a caller between taking mPartnerLock in switchMode and leaving the wait
InPartnerSection(c) == pc[c] \in {"sm_plock", "sm_write", "sm_wait", "sm_woken"}

\* C21: at most one thread waits on the partner condition (blocked in
\* pthread_cond_timedwait or woken and re-taking mPartnerLock), and it holds
\* the role-switch section; a switcher takes or holds mPartnerLock only while
\* it owns mRoleSwitchLock.
C21_OneWaiterNested ==
    /\ Cardinality({c \in Callers : pc[c] \in {"sm_wait", "sm_woken"}}) <= 1
    /\ \A c \in Callers : InPartnerSection(c) => mRoleSwitchLock = c
    /\ mPartnerLock \in Callers => mRoleSwitchLock = mPartnerLock

\* one switcher waits for the partner, owning the role-switch section, while
\* the dispatch thread holds mPartnerLock to signal it
C21_Witness ==
    \E c \in Callers : \E w \in Workers :
        /\ pc[c] = "sm_wait" /\ mRoleSwitchLock = c
        /\ mPartnerLock = w /\ pc[w] = "wk_signal"


\* C22: a limitPowerTransfer call that reached its writes attempted the
\* write to the sink-limit enable and the source-limit enable node, and to
\* the sink current node exactly when limiting, whichever of them failed;
\* its status is ERROR exactly when one of the writes failed and SUCCESS
\* exactly when none did, and that status is what a notification carries.
C22_LimitWritesAllAttempted ==
    \A c \in Callers :
        call[c].op = "limitPowerTransfer" /\ aux[c].result # "none" =>
            /\ {"sink_enable", "source_enable"} \subseteq aux[c].done
            /\ ("sink_current" \in aux[c].done) = call[c].enable
            /\ aux[c].lost \subseteq aux[c].done
            /\ (aux[c].result = "ERROR") = (aux[c].lost # {})
            /\ (aux[c].result = "SUCCESS") = (aux[c].lost = {})
            /\ aux[c].note \in {aux[c].result, "dropped"}

\* a limiting call whose first write failed and whose last write succeeded:
\* all three writes were made and the subscriber was told ERROR
C22_Witness ==
    \E c \in Callers :
        /\ call[c].op = "limitPowerTransfer" /\ call[c].enable
        /\ aux[c].lost = {"sink_current"}
        /\ aux[c].done = {"sink_current", "sink_enable", "source_enable"}
        /\ aux[c].note = "ERROR"

\* the snapshot of the running status computation is complete
Computed(t) == pc[t] \in {"qv_post", "qv_tail"} /\ cps # <<>>
YesText == <<"yes", "\n">>

C23_ErrorWitness ==
    \E t \in Threads :
        /\ pc[t] = "qv_tail" /\ mCallback # NULL /\ qstatus = "ERROR"
        /\ cps # <<>> /\ ~cps[1].canChangeMode

\* the power brick state of an element
BrickOf(st) == st.powerBrickStatus

C24_KeepsWitness ==
    \E t \in Threads :
        /\ pc[t] = "qv_tail" /\ cps # <<>>
        /\ conn[cps[1].portName]
        /\ cps[1].complianceWarnings # <<>>
        /\ cps[1].currentPowerRole = "SINK" /\ cps[1].currentDataRole = "DEVICE"
        /\ BrickOf(cps[1]) = "NOT_CONNECTED"

\* the two usb_flags that turn "other" into INPUT_POWER_LIMITED are both on
ToggleActive == trace.flags[1] /\ trace.flags[2]

\* C25: the warnings of an element are those of the tokens of the text read
\* from non_compliant_reasons: "[bc12], [missing_rp]" gives BC_1_2 and
\* MISSING_RP, "[other]" gives OTHER while the toggle is off,
\* "[input_power_limited]" gives INPUT_POWER_LIMITED while it is on, a token
\* that starts with a known word gives that word's warning, and a token that
\* starts with none gives nothing.
C25_Tokenization ==
    \A t \in Threads :
        pc[t] = "qv_tail" /\ cps # <<>> =>
            LET got == cps[1].complianceWarnings
                text == trace.reasons
            IN  /\ text = <<"[", "bc12", "]", ",", " ", "[", "missing_rp", "]", "\n">>
                      => got = <<"BC_1_2", "MISSING_RP">>
                /\ text = <<"[", "other", "]", "\n">> /\ ~ToggleActive
                      => got = <<"OTHER">>
                /\ text = <<"[", "input_power_limited", "]", "\n">> /\ ToggleActive
                      => got = <<"INPUT_POWER_LIMITED">>
                /\ text = <<"[", "unknown", "]", "\n">> => got = <<>>
                /\ text = <<"bc12", "_v2", " ", "unknown", "bc12">>
                      => got = <<"BC_1_2">>
                /\ text \in {<<>>, <<"\n">>, Unreadable} => got = <<>>

\* the text "[bc12], [missing_rp]" was read and both warnings are in the
\* snapshot about to be handed over
C25_Witness ==
    \E t \in Threads :
        /\ pc[t] = "qv_tail" /\ mCallback # NULL
        /\ trace.reasons = <<"[", "bc12", "]", ",", " ", "[", "missing_rp", "]", "\n">>
        /\ cps[1].complianceWarnings = <<"BC_1_2", "MISSING_RP">>

\* "[input_power_limited]" was read with the toggle on
C25_ToggleWitness ==
    \E t \in Threads :
        /\ pc[t] = "qv_tail" /\ ToggleActive
        /\ trace.reasons = <<"[", "input_power_limited", "]", "\n">>
        /\ cps[1].complianceWarnings = <<"INPUT_POWER_LIMITED">>

\* C26: enableUsbDataWhileDocked has NOT_SUPPORTED as its status exactly
\* when move_data_to_usb could not be opened, and then nothing was written;
\* when the node is there "1" was written to it and the status is SUCCESS if
\* the write succeeded and ERROR if it failed; a subscriber is told that
\* status.
C26_DockedStatus ==
    \A c \in Callers :
        call[c].op = "enableUsbDataWhileDocked" /\ pc[c] # "idle" =>
            /\ (aux[c].result = "NOT_SUPPORTED") = (aux[c].path = "no_node")
            /\ aux[c].path = "no_node" => aux[c].done = {}
            /\ aux[c].path = "node" =>
                  /\ aux[c].done = {"move_data_to_usb"}
                  /\ aux[c].result = IF aux[c].lost = {} THEN "SUCCESS" ELSE "ERROR"
            /\ aux[c].note \in {"none", "dropped", aux[c].result}
            /\ call[c].sub /\ mCallback # NULL /\ pc[c] \notin {"op_lock", "op_notify"}
                  => aux[c].note = aux[c].result

\* the node is missing and the subscriber was told NOT_SUPPORTED
C26_Witness ==
    \E c \in Callers :
        /\ call[c].op = "enableUsbDataWhileDocked"
        /\ aux[c].path = "no_node" /\ aux[c].done = {}
        /\ aux[c].note = "NOT_SUPPORTED"

\* the node is there, the write failed and the subscriber was told ERROR
C26_FailedWriteWitness ==
    \E c \in Callers :
        /\ call[c].op = "enableUsbDataWhileDocked"
        /\ aux[c].path = "node" /\ aux[c].lost = {"move_data_to_usb"}
        /\ aux[c].note = "ERROR"

\* a call that went through its writes and its notification point
Finished(c) ==
    /\ pc[c] = "ret"
    /\ \/ call[c].op \in {"queryPortStatus", "enableUsbData"}
       \/ call[c].op = "switchRole" /\ call[c].kind \in Kinds
       \/ call[c].op = "limitPowerTransfer" /\ aux[c].result # "none"

\* C27: with mCallback NULL nothing is handed to a callback, neither a
\* status of an operation nor a snapshot; switchRole, enableUsbData,
\* limitPowerTransfer and queryPortStatus go through their writes all the
\* same (a role switch can succeed, the data and limit files are written,
\* the snapshot is recomputed where the operation recomputes it) and reach
\* their return with the notification left out.
C27_SilentWithoutSubscriber ==
    /\ mCallback = NULL
    /\ \A t \in Threads : ~Delivering(t)
    /\ \A c \in Callers :
          /\ aux[c].note \in {"none", "dropped"}
          /\ Finished(c) =>
                /\ aux[c].note = "dropped"
                /\ call[c].op # "switchRole" => aux[c].recomputed = 1
                /\ call[c].op = "limitPowerTransfer" =>
                      {"sink_enable", "source_enable"} \subseteq aux[c].done
                /\ call[c].op = "enableUsbData" =>
                      /\ aux[c].result \in {"SUCCESS", "ERROR"}
                      /\ ~call[c].enable => aux[c].writes >= 1

\* after a callback was set and cleared, a data-role switch was written,
\* read back as asked for, and returns with nothing handed over
C27_Witness ==
    \E c \in Callers :
        /\ created = 1 /\ mCallback = NULL
        /\ pc[c] = "ret" /\ call[c].op = "switchRole" /\ call[c].kind = "dataRole"
        /\ aux[c].roleSwitch /\ aux[c].writes >= 1
        /\ aux[c].note = "dropped"

\* enableUsbData(false) stored the flag and recomputed the snapshot with
\* nothing handed over
C27_DataWitness ==
    \E c \in Callers :
        /\ mCallback = NULL
        /\ pc[c] = "ret" /\ call[c].op = "enableUsbData"
        /\ aux[c].result = "SUCCESS" /\ ~mUsbDataEnabled
        /\ aux[c].recomputed = 1 /\ aux[c].note = "dropped"

\* the dispatch thread w is inside uevent_event with a record
Processing(w) ==
    pc[w] \in {"wk_plock", "wk_signal", "wk_skip", "wk_try", "wk_rec",
               "qv_lock", "qv_power", "qv_data", "qv_mode", "qv_post", "qv_tail"}

\* the sections thread t holds
Held(t) ==
    (IF mLock = t THEN {"mLock"} ELSE {})
    \cup (IF mRoleSwitchLock = t THEN {"mRoleSwitchLock"} ELSE {})
    \cup (IF mPartnerLock = t THEN {"mPartnerLock"} ELSE {})

\* the handler of SIGUSR1 leaves a thread that processes a record where it is
C29_StopNeverInterrupts ==
    [][\A w \in Workers :
          Processing(w) /\ destroyThread' /\ ~destroyThread => pc'[w] = pc[w]]_vars

\* the thread ends holding none of the three sections
C29_ExitsHoldingNothing ==
    \A w \in Workers : pc[w] \in {"wk_dead", "wk_joined"} => Held(w) = {}

\* once destroyThread is set the thread takes no record from its socket
C29_NoRecordAfterStop ==
    [][\A w \in Workers :
          destroyThread /\ pc[w] = "wk_blocked" => ~Processing(w)']_vars

\* C29: cancellation of the dispatch loop is cooperative: the handler that
\* sets destroyThread never moves a thread that is processing a record, the
\* thread ends holding none of mLock, mRoleSwitchLock and mPartnerLock, and
\* after destroyThread is set the thread takes no further record from its
\* socket.
C29_CooperativeCancel ==
    [][\A w \in Workers :
          /\ Processing(w) /\ destroyThread' /\ ~destroyThread => pc'[w] = pc[w]
          /\ pc'[w] \in {"wk_dead", "wk_joined"} => Held(w)' = {}
          /\ destroyThread /\ pc[w] = "wk_blocked" => ~Processing(w)']_vars

\* C30: a mode switch whose fputs returned EOF never enters
\* pthread_cond_timedwait: it gives mPartnerLock back, goes on to
\* switchToDrp, which has written (or tried to write) "dual" before the
\* notification, and ends with ERROR.
C30_FailedModeWriteSkipsWait ==
    \A c \in Callers :
        ModeCall(c) /\ aux[c].wres = "EOF" =>
            /\ pc[c] \in {"sm_drp", "sr_mlock", "sr_notify", "ret"}
            /\ aux[c].waitStart = -1 /\ ~aux[c].timedOut
            /\ mPartnerLock # c
            /\ ~aux[c].roleSwitch
            /\ pc[c] # "sm_drp" => aux[c].drp \in {"ok", "fail"}
            /\ pc[c] \in {"sr_mlock", "sr_notify"} /\ aux[c].drp = "ok" =>
                  nodes[call[c].port].port_type = "dual"
            /\ pc[c] = "ret" => aux[c].note \in {"ERROR", "dropped"}

\* the write of a mode switch failed, "dual" was written and the subscriber
\* was told ERROR
C30_Witness ==
    \E c \in Callers :
        /\ ModeCall(c) /\ aux[c].wres = "EOF" /\ aux[c].waitStart = -1
        /\ pc[c] = "ret" /\ aux[c].drp = "ok" /\ aux[c].note = "ERROR"

\* ------------------------------------------- the reconciliation, for ever
\* The dispatch thread of a registered callback in epoll_wait, no partner on
\* the port, and a kernel that goes on sending records one of whose strings
\* starts with DEVTYPE=typec_, DRIVER=max77759tcpc, DRIVER=pogo-transport or
\* POWER_SUPPLY_NAME=usb, while a binder thread calls switchRole.
FairInit ==
    /\ pc = [t \in Threads |-> IF t \in Callers THEN "idle"
                               ELSE IF t = 1 THEN "wk_blocked" ELSE "unborn"]
    /\ call = [c \in Callers |-> NoCall]
    /\ ops = 0
    /\ mLock = NoThread
    /\ mRoleSwitchLock = NoThread
    /\ mPartnerLock = NoThread
    /\ mCallback = "cb1"
    /\ mPoll = 1
    /\ destroyThread = FALSE
    /\ mPartnerUp = FALSE
    /\ mUsbDataEnabled = TRUE
    /\ trace = NoTrace
    /\ sigPending = {}
    /\ created = 1
    /\ sock = [w \in Workers |-> <<>>]
    /\ sockOpen = [w \in Workers |-> w = 1]
    /\ msg = [w \in Workers |-> <<>>]
    /\ wkPorts = [w \in Workers |-> <<>>]
    /\ wkIdx = [w \in Workers |-> 0]
    /\ nodes = [p \in Ports |-> [power_role |-> "sink", data_role |-> "device",
                                 port_type |-> "dual"]]
    /\ partner = [p \in Ports |-> Absent]
    /\ events = 0
    /\ now = 0
    /\ deadline = [c \in Callers |-> 0]
    /\ err = [c \in Callers |-> "none"]
    /\ spurious = 0
    /\ cps = <<>>
    /\ conn = [p \in Ports |-> FALSE]
    /\ qidx = 0
    /\ qstatus = "none"
    /\ hist = [p \in Ports |-> {}]
    /\ aux = [c \in Callers |-> NoAux]

\* the kernel's record of a change that is neither an attach nor a detach
TopologyMsg == <<"topology">>

\* the kernel multicasts such a record whenever the sockets have been read
\* empty: there is always another one to come
TopologyRecord ==
    /\ \A w \in Workers : sock[w] = <<>>
    /\ Broadcast(TopologyMsg)
    /\ UNCHANGED <<pc, call, ops, mUsbDataEnabled, trace, locks, mCallback, thrVars, mPartnerUp,
                   sockOpen, msg, recVars, hwVars, timeVars, snapVars, aux>>

\* the steps of the dispatch thread on such records
DispatchStep(w) ==
    /\ ~Crashed
    /\  \/ WkLoop(w)
        \/ WkEpoll(w)
        \/ WkRecv(w)
        \/ QvLock(w)
        \/ QvPower(w)
        \/ QvPost(w)
        \/ QvTail(w)
        \/ WkTryLock(w)
        \/ WkReconcile(w)

\* the steps of a switchRole call once it has been made
RoleSwitchStep(c) ==
    /\ ~Crashed
    /\  \/ SrLock(c)
        \/ SrWrite(c)
        \/ SrRetry(c)
        \/ SrReadBack(c)
        \/ SrMLock(c)
        \/ SrNotify(c)
        \/ SmPartnerLock(c)
        \/ SmWrite(c)
        \/ SmTimeout(c)
        \/ SmSpurious(c)
        \/ SmWoken(c)
        \/ SmFallback(c)
        \/ Return(c)

\* the binder thread that calls switchRole, one call after the other
RoleSwitchCallers == {11}

FairNext ==
    \/ \E c \in Running(RoleSwitchCallers) : CallSwitchRole(c)
    \/ \E c \in Callers : RoleSwitchStep(c)
    \/ \E w \in Workers : DispatchStep(w)
    \/ TopologyRecord
    \/ ~Crashed /\ Tick

\* Fair scheduling: a thread that can take a step again and again takes one,
\* so that a thread inside pthread_mutex_lock gets a mutex that is released
\* again and again; the clock of the timed wait advances, and the records
\* keep arriving.  Nothing obliges a binder thread to call switchRole.
FairSpec ==
    /\ FairInit
    /\ [][FairNext]_vars
    /\ \A w \in Workers : SF_vars(DispatchStep(w))
    /\ \A c \in Callers : SF_vars(RoleSwitchStep(c))
    /\ WF_vars(~Crashed /\ Tick)
    /\ WF_vars(TopologyRecord)

\* a port without a partner directory whose port_type is not "dual"
LeftNonDefault(p) == partner[p] = Absent /\ nodes[p].port_type # "dual"

\* the loop of uevent_event is at port p, has found no partner directory and
\* is about to call switchToDrp
Reconciling(p) ==
    \E w \in Workers :
        /\ pc[w] = "wk_rec" /\ mRoleSwitchLock = w
        /\ wkPorts[w][wkIdx[w]] = p /\ partner[p] = Absent

\* getTypeCPortNamesHelper has failed for the dispatch thread: its vector is
\* empty
ListingFailed == \E w \in Workers : pc[w] = "qv_post" /\ cps = <<>>

JoinBlocked(c) ==
    /\ pc[c] = "sc_join" /\ mLock = c
    /\ mPoll \in Workers /\ pc[mPoll] = "qv_lock"
    /\ ~ENABLED ScJoin(c) /\ ~ENABLED QvLock(mPoll)

\* C31: setCallback(NULL) called while a callback is registered returns in
\* every interleaving with the dispatch thread: it is never inside
\* pthread_join waiting for a dispatch thread that, for a topology record,
\* is waiting for the mLock the call holds.
C31_SetCallbackNullReturns == \A c \in Callers : ~JoinBlocked(c)

\* the dispatch thread w is at lines 1107-1109 for a "partner added" string
\* and leaves them in this step
Signalling(w) ==
    /\ pc[w] = "wk_signal" /\ mPartnerLock = w
    /\ msg[w] # <<>> /\ Head(msg[w]) = "partner_add"
    /\ pc'[w] # "wk_signal"

\* C32: switchMode clears mPartnerUp under mPartnerLock before the write and
\* keeps the lock until pthread_cond_timedwait releases it, so that no
\* "partner added" string is acted on between the write and the start of
\* the wait; mPartnerUp becomes true only by the dispatch thread acting on
\* such a string, which wakes the waiter; and roleSwitch becomes true only
\* when the wait has returned 0 with mPartnerUp true, which then always
\* gives success.
C32_SuccessNeedsFreshAttach ==
    [][ /\ mPartnerUp' /\ ~mPartnerUp => \E w \in Workers : Signalling(w)
        /\ \A c \in Callers :
             /\ pc'[c] = "sm_write" /\ pc[c] # "sm_write" =>
                   ~mPartnerUp' /\ mPartnerLock' = c
             /\ pc[c] = "sm_write" =>
                   /\ ~mPartnerUp /\ mPartnerLock = c
                   /\ \A w \in Workers : pc[w] # "wk_signal"
                   /\ ~mPartnerUp'
             /\ ModeCall(c) /\ aux'[c].roleSwitch /\ ~aux[c].roleSwitch =>
                   /\ mRoleSwitchLock = c
                   /\ pc[c] = "sm_woken" /\ err[c] = "OK" /\ mPartnerUp
             /\ pc[c] = "sm_woken" /\ err[c] = "OK" /\ mPartnerUp
                  /\ pc'[c] # "sm_woken" => aux'[c].roleSwitch
             /\ pc[c] = "sm_wait" /\ (\E w \in Workers : Signalling(w)) =>
                   pc'[c] = "sm_woken" /\ err'[c] = "OK" /\ mPartnerUp'
      ]_vars

\* a mode switch has succeeded on a "partner added" string the dispatch thread
\* had received while the call held mPartnerLock for its write
C32_Witness ==
    \E c \in Callers :
        /\ ModeCall(c) /\ aux[c].roleSwitch /\ pc[c] = "sr_mlock"
        /\ mPartnerUp /\ aux[c].wres = "sent"

\* the dispatch thread waits for mPartnerLock with a "partner added" string
\* while the mode switch that holds it has not written yet
C32_HeldBackWitness ==
    \E c \in Callers, w \in Workers :
        pc[c] = "sm_write" /\ pc[w] = "wk_plock" /\ mPartnerLock = c

\* ------------------------------------------- all callers and the thread
\* The dispatch thread of a registered callback, the kernel's uevents, and
\* binder threads calling switchRole, queryPortStatus, enableUsbData and
\* limitPowerTransfer; setCallback is not called.  One binder thread calls
\* switchRole, and while it does the other calls one of the operations that
\* work under mLock alone.  The role is a mode or a data role (a power role
\* goes the way of a data role), the files of enableUsbData and
\* limitPowerTransfer take their writes, and one partner is attached.
StatusCallers == Callers \ RoleSwitchCallers

MixNext ==
    \/ \E c \in Running(RoleSwitchCallers) : CallSwitchRoleOf(c, {"mode", "dataRole"})
    \/ \E c \in Running(StatusCallers) : CallQueryPortStatus(c)
    \/ \E c \in Running(StatusCallers) :
          CallEnableUsbDataWith(c, {"gadget"}, {[f \in DataFiles |-> TRUE]})
    \/ \E c \in Running(StatusCallers) : CallLimitPowerTransferWith(c, {1})
    \/ \E c \in Running(Callers) : EuStore(c)
    \/ \E c \in Running(Callers) : OpLock(c)
    \/ \E c \in Running(Callers) : OpNotify(c)
    \/ \E c \in Running(Callers) : LpLock(c)
    \/ \E c \in Running(Callers) : LpWriteWith(c, {[f \in LimitFiles |-> TRUE]})
    \/ \E t \in Running(Threads) : QvLock(t)
    \/ \E t \in Running(Threads) : QvPower(t)
    \/ \E t \in Running(Threads) : QvData(t)
    \/ \E t \in Running(Threads) : QvMode(t)
    \/ \E t \in Running(Threads) : QvPost(t)
    \/ \E t \in Running(Threads) : QvTail(t)
    \/ \E c \in Running(Callers) : QpLock(c)
    \/ \E c \in Running(Callers) : QpNotify(c)
    \/ \E c \in Running(Callers) : SrLock(c)
    \/ \E c \in Running(Callers) : SrWrite(c)
    \/ \E c \in Running(Callers) : SrRetry(c)
    \/ \E c \in Running(Callers) : SrReadBack(c)
    \/ \E c \in Running(Callers) : SrMLock(c)
    \/ \E c \in Running(Callers) : SrNotify(c)
    \/ \E c \in Running(Callers) : SmPartnerLock(c)
    \/ \E c \in Running(Callers) : SmWrite(c)
    \/ \E c \in Running(Callers) : SmTimeout(c)
    \/ \E c \in Running(Callers) : SmSpurious(c)
    \/ \E c \in Running(Callers) : SmWoken(c)
    \/ \E c \in Running(Callers) : SmFallback(c)
    \/ \E c \in Running(Callers) : Return(c)
    \/ \E w \in Running(Workers) : WkLoop(w)
    \/ \E w \in Running(Workers) : WkEpoll(w)
    \/ \E w \in Running(Workers) : WkRecv(w)
    \/ \E w \in Running(Workers) : WkPartnerLock(w)
    \/ \E w \in Running(Workers) : WkPartnerSignal(w)
    \/ \E w \in Running(Workers) : WkTryLock(w)
    \/ \E w \in Running(Workers) : WkReconcile(w)
    \/ \E p \in Running(Ports) : PartnerAttach(p)
    \/ ~Crashed /\ Tick

MixSpec == FairInit /\ [][MixNext]_vars

\* the section thread t is inside pthread_mutex_lock for (the wait of
\* pthread_cond_timedwait takes mPartnerLock again before it returns)
Acquiring(t) ==
    IF pc[t] \in {"qv_lock", "op_lock", "lp_lock", "qp_lock", "sr_mlock", "sc_lock"}
    THEN "mLock"
    ELSE IF pc[t] = "sr_lock" THEN "mRoleSwitchLock"
    ELSE IF pc[t] \in {"sm_plock", "sm_woken", "wk_plock"} THEN "mPartnerLock"
    ELSE "none"

\* the thread that holds the section t is waiting for, if any
WaitsFor(t) ==
    IF t = NoThread THEN NoThread
    ELSE IF Acquiring(t) = "mLock" THEN mLock
    ELSE IF Acquiring(t) = "mRoleSwitchLock" THEN mRoleSwitchLock
    ELSE IF Acquiring(t) = "mPartnerLock" THEN mPartnerLock
    ELSE NoThread

\* the labels at which a thread is outside every call and every record
AtRest == {"idle", "ret", "unborn", "wk_start", "wk_loop", "wk_epoll",
           "wk_blocked", "wk_dead", "wk_joined"}

\* C33: with switchRole, queryPortStatus, enableUsbData and
\* limitPowerTransfer callers and the dispatch thread no circular wait is
\* reachable: following who waits for whom ends, after at most as many
\* steps as there are threads, at a thread that waits for no section.
\* mRoleSwitchLock is asked for with nothing held, mPartnerLock and mLock
\* with at most mRoleSwitchLock held, and whoever holds mLock or mPartnerLock
\* asks for nothing; the dispatch thread asks for a section with nothing
\* held and is at its pthread_mutex_trylock with nothing held; no thread is at
\* rest with a section held.
C33_NoCircularWait ==
    \A t \in Threads :
        /\ WaitsFor(WaitsFor(WaitsFor(WaitsFor(t)))) = NoThread
        /\ Acquiring(t) = "mRoleSwitchLock" => Held(t) = {}
        /\ Acquiring(t) \in {"mPartnerLock", "mLock"} => Held(t) \subseteq {"mRoleSwitchLock"}
        /\ Held(t) \cap {"mLock", "mPartnerLock"} # {} => Acquiring(t) = "none"
        /\ t \in Workers /\ (Acquiring(t) # "none" \/ pc[t] = "wk_try") => Held(t) = {}
        /\ t \in Workers /\ pc[t] = "wk_rec" => Held(t) = {"mRoleSwitchLock"}
        /\ pc[t] \in AtRest => Held(t) = {}

\* a switchRole call holds mRoleSwitchLock and waits for mLock, which a
\* call of another operation holds, while the dispatch thread waits for
\* mLock too with a topology string
C33_Witness ==
    \E c \in RoleSwitchCallers, d \in StatusCallers, w \in Workers :
        /\ pc[c] = "sr_mlock" /\ mRoleSwitchLock = c
        /\ mLock = d /\ call[d].op \in {"enableUsbData", "limitPowerTransfer"}
        /\ pc[w] = "qv_lock"

\* the dispatch thread finds mRoleSwitchLock taken by a call that waits for
\* mLock, and goes on without it
C33_TryLockBusyWitness ==
    \E c \in RoleSwitchCallers, w \in Workers :
        pc[w] = "wk_try" /\ mRoleSwitchLock = c /\ pc[c] = "sr_mlock" /\ mLock # NoThread

\* ------------------------------------- the partner wait, woken for ever
\* pthread_cond_timedwait may return 0 with nobody having signalled, any
\* number of times (lines 454-463)
SmWakeUp(c) ==
    /\ pc[c] = "sm_wait"
    /\ err' = [err EXCEPT ![c] = "OK"]
    /\ pc' = [pc EXCEPT ![c] = "sm_woken"]
    /\ UNCHANGED <<call, ops, mUsbDataEnabled, trace, locks, mCallback, thrVars, mPartnerUp, sockVars,
                   recVars, hwVars, now, deadline, spurious, snapVars, aux>>

\* lines 449-454 and 462-463: woken with the flag still false, the call goes
\* to wait_again, reads the clock and waits until PORT_TYPE_TIMEOUT from
\* that reading.  The origin of the clock is moved to the reading (only
\* differences of readings are used), and so is the recorded start of the wait.
SmWaitAgain(c) ==
    /\ pc[c] = "sm_woken" /\ mPartnerLock = NoThread
    /\ err[c] = "OK" /\ ~mPartnerUp
    /\ now' = 0
    /\ deadline' = [deadline EXCEPT ![c] = PORT_TYPE_TIMEOUT]
    /\ aux' = [aux EXCEPT ![c].waitStart = 0]
    /\ mPartnerLock' = NoThread
    /\ pc' = [pc EXCEPT ![c] = "sm_wait"]
    /\ err' = [err EXCEPT ![c] = "none"]
    /\ UNCHANGED <<call, ops, mUsbDataEnabled, trace, mLock, mRoleSwitchLock, mCallback, thrVars,
                   mPartnerUp, sockVars, recVars, hwVars, spurious, snapVars>>

\* lines 454-468: the wait is left, by a time-out or with the flag set
SmWaitEnds(c) == SmWoken(c) /\ pc'[c] # "sm_wait"

\* the steps of a switchRole call whose wait is woken any number of times
WakeStep(c) ==
    /\ ~Crashed
    /\  \/ SrLock(c)
        \/ SrWrite(c)
        \/ SrRetry(c)
        \/ SrReadBack(c)
        \/ SrMLock(c)
        \/ SrNotify(c)
        \/ SmPartnerLock(c)
        \/ SmWrite(c)
        \/ SmTimeout(c)
        \/ SmWakeUp(c)
        \/ SmWaitAgain(c)
        \/ SmWaitEnds(c)
        \/ SmFallback(c)
        \/ Return(c)

\* the steps of the dispatch thread on records of every kind
WakeDispatchStep(w) ==
    /\ ~Crashed
    /\  \/ DispatchStep(w)
        \/ QvData(w)
        \/ QvMode(w)
        \/ WkPartnerLock(w)
        \/ WkPartnerSignal(w)

WakeNext ==
    \/ \E c \in Running(RoleSwitchCallers) : CallSwitchRoleOf(c, {"mode", "dataRole"})
    \/ \E c \in RoleSwitchCallers : WakeStep(c)
    \/ \E w \in Workers : WakeDispatchStep(w)
    \/ \E p \in Ports : ~Crashed /\ PartnerAttach(p)
    \/ TopologyRecord
    \/ ~Crashed /\ Tick

\* Fair scheduling as in FairSpec, and a clock that advances whenever a call
\* is in the wait again and again.
WakeSpec ==
    /\ FairInit
    /\ [][WakeNext]_vars
    /\ \A w \in Workers : SF_vars(WakeDispatchStep(w))
    /\ \A c \in RoleSwitchCallers : SF_vars(WakeStep(c))
    /\ SF_vars(~Crashed /\ Tick)
    /\ WF_vars(TopologyRecord)

\* C34 as stated: every switchRole call eventually returns with
\* mRoleSwitchLock released, whatever partner-attach records arrive and
\* however often the partner wait is woken with mPartnerUp still false
\* (the end of the process on the empty vector aside).
C34_SwitchRoleReturns ==
    \A c \in RoleSwitchCallers :
        SwitchCall(c) ~> \/ pc[c] \in {"ret", "idle"} /\ mRoleSwitchLock # c
                         \/ Crashed

\* ------------------------------------------- the data flag and its reason
\* C35: enableUsbData stores in_enable in mUsbDataEnabled when it reports
\* SUCCESS and leaves the flag as it was when it reports ERROR, and nothing
\* else writes the flag; so the flag is false exactly when the last store
\* that succeeded was a disable, every usbDataStatus a snapshot computes
\* has DISABLED_FORCE exactly when the flag is false at that moment, and a
\* snapshot delivered with no store since it began has it exactly when the
\* last enableUsbData that stored had asked for disable and succeeded.
C35_FlagFollowsSuccess ==
    [][/\ \A c \in Callers :
            pc[c] = "eu_store" /\ pc'[c] # "eu_store" =>
               /\ call[c].op = "enableUsbData"
               /\ aux[c].result \in {"SUCCESS", "ERROR"}
               /\ aux[c].result = "ERROR" => mUsbDataEnabled' = mUsbDataEnabled
               /\ aux[c].result = "SUCCESS" => mUsbDataEnabled' = call[c].enable
       /\ mUsbDataEnabled' # mUsbDataEnabled =>
            \E c \in Callers : /\ pc[c] = "eu_store" /\ pc'[c] # "eu_store"
                               /\ aux[c].result = "SUCCESS"
       /\ trace'.data \in {"none", "on_ok"} => mUsbDataEnabled'
       /\ trace'.data = "off_ok" => ~mUsbDataEnabled'
       /\ \A t \in Threads :
            /\ pc[t] \in {"qv_power", "qv_mode"} /\ pc'[t] # pc[t]
            /\ cps'[qidx].usbDataStatus # cps[qidx].usbDataStatus
            => ("DISABLED_FORCE" \in cps'[qidx].usbDataStatus) = ~mUsbDataEnabled
       /\ \A t \in Threads :
            /\ Delivering(t)' /\ qstatus' = "SUCCESS"
            /\ trace'.data = trace'.seen /\ trace'.data \in {"none", "on_ok", "off_ok"}
            => \A i \in 1..Len(cps') :
                  ("DISABLED_FORCE" \in cps'[i].usbDataStatus) = (trace'.data = "off_ok")
      ]_vars

\* an enableUsbData(true) whose write failed after a disable that had
\* succeeded: the flag is still false, the call is about to report ERROR
\* and later delivers a snapshot with DISABLED_FORCE
C35_Witness ==
    \E c \in Callers :
        /\ call[c].op = "enableUsbData" /\ call[c].enable
        /\ aux[c].result = "ERROR" /\ trace.data = "on_fail"
        /\ ~mUsbDataEnabled
        /\ Delivering(c) /\ qstatus = "SUCCESS"
        /\ \A i \in 1..Len(cps) : "DISABLED_FORCE" \in cps[i].usbDataStatus

\* a disable whose write failed leaves the flag true, and the snapshot of
\* that call has ENABLED
C35_FailedDisableWitness ==
    \E c \in Callers :
        /\ call[c].op = "enableUsbData" /\ ~call[c].enable
        /\ aux[c].result = "ERROR" /\ trace.data = "off_fail"
        /\ mUsbDataEnabled
        /\ Delivering(c) /\ qstatus = "SUCCESS"
        /\ \E i \in 1..Len(cps) : cps[i].usbDataStatus = {"ENABLED"}

====
